---- MODULE Spec2Model ----
(***************************************************************************)
(* Model of the command resolution and transaction orchestration engine    *)
(* of flowly-backend: LangChainService.processMessage with its fast-path   *)
(* matchers, the transfer-asset and swap-tokens tools, and the per-user    *)
(* conversation window of TelegramBotService.handleConversationMessage.    *)
(*                                                                         *)
(* Texts are TLA+ strings; a character is a string of length 1.  The       *)
(* arbitrary-precision decimals of big.js are records [s, c, e] with the   *)
(* coefficient c a string of digits, exactly as big.js stores them.        *)
(***************************************************************************)
EXTENDS Integers, Sequences, FiniteSets, TLC

(***************************************************************************)
(* Characters and strings                                                  *)
(***************************************************************************)
Char(s, i) == SubSeq(s, i, i)

UpperChars == "ABCDEFGHIJKLMNOPQRSTUVWXYZ"

LowerChars == "abcdefghijklmnopqrstuvwxyz"

DigitChars == "0123456789"

InStr(c, alphabet) == \E i \in 1..Len(alphabet) : Char(alphabet, i) = c

IndexIn(c, alphabet) == CHOOSE i \in 1..Len(alphabet) : Char(alphabet, i) = c

IsDigit(c) == InStr(c, DigitChars)

IsSpace(c) == c = " "

\* [a-z0-9_-] under the i flag, which is also [A-Za-z0-9_-]
IsWordDash(c) == InStr(c, LowerChars) \/ InStr(c, UpperChars) \/ IsDigit(c) \/ c = "_" \/ c = "-"

\* \w of a regular expression, used by \b
IsWordChar(c) == InStr(c, LowerChars) \/ InStr(c, UpperChars) \/ IsDigit(c) \/ c = "_"

LowerOf(c) == IF InStr(c, UpperChars) THEN Char(LowerChars, IndexIn(c, UpperChars)) ELSE c

UpperOf(c) == IF InStr(c, LowerChars) THEN Char(UpperChars, IndexIn(c, LowerChars)) ELSE c

RECURSIVE toLowerCase(_)
toLowerCase(s) == IF s = "" THEN "" ELSE LowerOf(Char(s, 1)) \o toLowerCase(Tail(s))

RECURSIVE toUpperCase(_)
toUpperCase(s) == IF s = "" THEN "" ELSE UpperOf(Char(s, 1)) \o toUpperCase(Tail(s))

\* The typographic apostrophe and the grave accent are outside the character
\* set of TLA+ strings; the model's texts write both as ^.
TypoQuote == "^"

\* s.replace(/[<typographic apostrophe><grave accent>]/g, "'")
RECURSIVE normalizeQuotes(_)
normalizeQuotes(s) ==
    IF s = "" THEN ""
    ELSE (IF Char(s, 1) = TypoQuote THEN "'" ELSE Char(s, 1)) \o normalizeQuotes(Tail(s))

includes(s, sub) == \E i \in 1..(Len(s) - Len(sub) + 1) : SubSeq(s, i, i + Len(sub) - 1) = sub

startsWith(s, sub) == Len(s) >= Len(sub) /\ SubSeq(s, 1, Len(sub)) = sub

\* s.trim()
RECURSIVE trimStart(_)
trimStart(s) == IF s # "" /\ IsSpace(Char(s, 1)) THEN trimStart(Tail(s)) ELSE s

RECURSIVE trimEnd(_)
trimEnd(s) == IF s # "" /\ IsSpace(Char(s, Len(s))) THEN trimEnd(SubSeq(s, 1, Len(s) - 1)) ELSE s

trim(s) == trimEnd(trimStart(s))

\* number of consecutive digits of s starting at position i
RECURSIVE DigitRun(_, _)
DigitRun(s, i) == IF i <= Len(s) /\ IsDigit(Char(s, i)) THEN 1 + DigitRun(s, i + 1) ELSE 0

AllDigits(s) == \A i \in 1..Len(s) : IsDigit(Char(s, i))

AllZeros(s) == \A i \in 1..Len(s) : Char(s, i) = "0"

RECURSIVE Zeros(_)
Zeros(n) == IF n <= 0 THEN "" ELSE "0" \o Zeros(n - 1)

RECURSIVE StripLeadingZeros(_)
StripLeadingZeros(s) == IF s # "" /\ Char(s, 1) = "0" THEN StripLeadingZeros(Tail(s)) ELSE s

RECURSIVE StripTrailingZeros(_)
StripTrailingZeros(s) ==
    IF s # "" /\ Char(s, Len(s)) = "0" THEN StripTrailingZeros(SubSeq(s, 1, Len(s) - 1)) ELSE s

\* the value of a short string of digits (exponents, lengths), and back
RECURSIVE DigitsToNat(_)
DigitsToNat(s) ==
    IF s = "" THEN 0
    ELSE 10 * DigitsToNat(SubSeq(s, 1, Len(s) - 1)) + (IndexIn(Char(s, Len(s)), DigitChars) - 1)

RECURSIVE NatToDigits(_)
NatToDigits(n) ==
    IF n < 10 THEN Char(DigitChars, n + 1)
    ELSE NatToDigits(n \div 10) \o Char(DigitChars, (n % 10) + 1)

(***************************************************************************)
(* big.js, as used by the conversions: new Big(text), times, pow, round    *)
(* and toString.  A Big is [s |-> sign, c |-> digits, e |-> exponent],     *)
(* the value being s * c[1].c[2]c[3]... * 10^e; zero is c = "0", e = 0.    *)
(***************************************************************************)
BigNE == -7

BigPE == 21

\* new Big(text) threw "[big.js] Invalid number"
NaB == [invalid |-> TRUE]

\* a conversion that threw; no text a conversion returns has this form
Invalid == "<invalid number>"

\* NUMERIC = /^-?(\d+(\.\d*)?|\.\d+)(e[+-]?\d+)?$/i
BigNumeric(n) ==
    LET a  == IF n # "" /\ Char(n, 1) = "-" THEN 2 ELSE 1
        d1 == DigitRun(n, a)
        dot == a + d1 <= Len(n) /\ Char(n, a + d1) = "."
        d2 == IF dot THEN DigitRun(n, a + d1 + 1) ELSE 0
        m  == a + d1 + (IF dot THEN 1 + d2 ELSE 0)
        mantOk == (d1 >= 1) \/ (dot /\ d2 >= 1)
        hasE == m <= Len(n) /\ LowerOf(Char(n, m)) = "e"
        sg == IF hasE /\ m + 1 <= Len(n) /\ Char(n, m + 1) \in {"+", "-"} THEN 1 ELSE 0
        d3 == IF hasE THEN DigitRun(n, m + 1 + sg) ELSE 0
    IN  /\ mantOk
        /\ IF hasE THEN d3 >= 1 /\ m + sg + d3 = Len(n) ELSE m = Len(n) + 1

\* parse(x, n) of big.js
Big(text) ==
    IF ~BigNumeric(text) THEN NaB
    ELSE LET neg  == Char(text, 1) = "-"
             n0   == IF neg THEN Tail(text) ELSE text
             ePos == IF \E i \in 1..Len(n0) : LowerOf(Char(n0, i)) = "e"
                     THEN CHOOSE i \in 1..Len(n0) : LowerOf(Char(n0, i)) = "e"
                     ELSE 0
             mant == IF ePos > 0 THEN SubSeq(n0, 1, ePos - 1) ELSE n0
             expS == IF ePos > 0 THEN SubSeq(n0, ePos + 1, Len(n0)) ELSE ""
             expV == IF expS = "" THEN 0
                     ELSE IF Char(expS, 1) = "-" THEN 0 - DigitsToNat(Tail(expS))
                     ELSE IF Char(expS, 1) = "+" THEN DigitsToNat(Tail(expS))
                     ELSE DigitsToNat(expS)
             dotP == IF \E i \in 1..Len(mant) : Char(mant, i) = "."
                     THEN CHOOSE i \in 1..Len(mant) : Char(mant, i) = "."
                     ELSE 0
             digs == IF dotP > 0
                     THEN SubSeq(mant, 1, dotP - 1) \o SubSeq(mant, dotP + 1, Len(mant))
                     ELSE mant
             e0   == (IF dotP > 0 THEN dotP - 1 ELSE Len(mant)) + expV
             lead == Len(digs) - Len(StripLeadingZeros(digs))
         IN  IF AllZeros(digs)
             THEN [s |-> IF neg THEN -1 ELSE 1, c |-> "0", e |-> 0]
             ELSE [s |-> IF neg THEN -1 ELSE 1,
                   c |-> StripTrailingZeros(StripLeadingZeros(digs)),
                   e |-> e0 - lead - 1]

\* new Big(10).pow(decimals)
BigPow10(decimals) == [s |-> 1, c |-> "1", e |-> decimals]

\* x.times(y) where y is a power of ten, the only multiplier the conversions use
BigTimes(x, y) ==
    IF x.c = "0" THEN [s |-> x.s * y.s, c |-> "0", e |-> 0]
    ELSE [s |-> x.s * y.s, c |-> x.c, e |-> x.e + y.e]

\* x.round(0, 0): no fractional digit is kept, rounding mode 0 (towards zero)
BigRound00(x) ==
    LET sd == x.e + 1
    IN  IF sd < 1 THEN [s |-> x.s, c |-> "0", e |-> 0]
        ELSE IF sd < Len(x.c) THEN [s |-> x.s, c |-> StripTrailingZeros(SubSeq(x.c, 1, sd)), e |-> x.e]
        ELSE x

\* x.toString(): exponential notation when e <= NE or e >= PE
BigToString(x) ==
    LET n == Len(x.c)
        body ==
            IF x.e <= BigNE \/ x.e >= BigPE
            THEN Char(x.c, 1) \o (IF n > 1 THEN "." \o SubSeq(x.c, 2, n) ELSE "")
                 \o (IF x.e < 0 THEN "e-" \o NatToDigits(0 - x.e) ELSE "e+" \o NatToDigits(x.e))
            ELSE IF x.e < 0 THEN "0." \o Zeros(0 - x.e - 1) \o x.c
            ELSE IF x.e + 1 > n THEN x.c \o Zeros(x.e + 1 - n)
            ELSE IF x.e + 1 < n THEN SubSeq(x.c, 1, x.e + 1) \o "." \o SubSeq(x.c, x.e + 2, n)
            ELSE x.c
    IN  IF x.s < 0 /\ x.c # "0" THEN "-" \o body ELSE body

\* big.times(denom).round(0, 0).toString() of the display-to-base conversion
toBaseUnits(amountRaw, decimals) ==
    LET big == Big(amountRaw)
    IN  IF big = NaB THEN Invalid
        ELSE BigToString(BigRound00(BigTimes(big, BigPow10(decimals))))

\* decimal places kept by div (Big.DP) and the fractional digits of toFixed(6)
BigDP == 20

DisplayDigits == 6

\* the digits of the number one greater than the number with digits s
RECURSIVE IncDigits(_)
IncDigits(s) ==
    IF s = "" THEN "1"
    ELSE IF Char(s, Len(s)) = "9" THEN IncDigits(SubSeq(s, 1, Len(s) - 1)) \o "0"
    ELSE SubSeq(s, 1, Len(s) - 1) \o Char(DigitChars, IndexIn(Char(s, Len(s)), DigitChars) + 1)

\* round(x, sd, 1) of big.js: keep sd digits of the coefficient, rounding half up
BigRoundHalfUp(x, sd) ==
    IF sd < 1
    THEN IF sd = 0 /\ IndexIn(Char(x.c, 1), DigitChars) - 1 >= 5
         THEN [s |-> x.s, c |-> "1", e |-> x.e - sd + 1]
         ELSE [s |-> x.s, c |-> "0", e |-> 0]
    ELSE IF sd < Len(x.c)
    THEN LET kept == SubSeq(x.c, 1, sd)
             more == IndexIn(Char(x.c, sd + 1), DigitChars) - 1 >= 5
             inc  == IF more THEN IncDigits(kept) ELSE kept
         IN  [s |-> x.s, c |-> StripTrailingZeros(inc), e |-> x.e + (Len(inc) - sd)]
    ELSE x

\* big.div(denom) where denom is 10^decimals: the quotient rounded to Big.DP places
BigDivPow10(x, decimals) ==
    IF x.c = "0" THEN [s |-> x.s, c |-> "0", e |-> 0]
    ELSE BigRoundHalfUp([x EXCEPT !.e = x.e - decimals], BigDP + (x.e - decimals) + 1)

\* x.toFixed(dp): positional notation with exactly dp fractional digits
BigToFixed(x, dp) ==
    LET r == BigRoundHalfUp(x, dp + x.e + 1)
        s == r.c \o Zeros(dp + r.e + 1 - Len(r.c))
        n == Len(s)
        body ==
            IF r.e < 0 THEN "0." \o Zeros(0 - r.e - 1) \o s
            ELSE IF r.e > 0
            THEN IF r.e + 1 > n THEN s \o Zeros(r.e + 1 - n)
                 ELSE IF r.e + 1 < n THEN SubSeq(s, 1, r.e + 1) \o "." \o SubSeq(s, r.e + 2, n)
                 ELSE s
            ELSE IF n > 1 THEN Char(s, 1) \o "." \o SubSeq(s, 2, n)
            ELSE s
    IN  IF x.s < 0 /\ x.c # "0" THEN "-" \o body ELSE body

\* n.gt(0)
BigGt0(x) == x.s > 0 /\ x.c # "0"

\* .replace(/\.0+$/, "").replace(/(\.\d*?)0+$/, "$1") on a text with one decimal point
trimFraction(text) ==
    LET dot == CHOOSE i \in 1..Len(text) : Char(text, i) = "."
        frac == SubSeq(text, dot + 1, Len(text))
    IN  IF ~includes(text, ".") THEN text
        ELSE IF frac # "" /\ AllZeros(frac) THEN SubSeq(text, 1, dot - 1)
        ELSE IF AllDigits(frac) /\ frac # "" /\ Char(text, Len(text)) = "0"
        THEN StripTrailingZeros(text)
        ELSE text

\* formatAmountWithDecimals without the division by 10^decimals
formatAmountWithDecimals_NoDivision(amount, decimals) ==
    IF Big(IF amount = "" THEN "0" ELSE amount) = NaB THEN amount
    ELSE BigToString(Big(IF amount = "" THEN "0" ELSE amount))

\* formatAmountWithDecimals(amount, decimals); "" is an absent amount
formatAmountWithDecimals(amount, decimals) ==
    LET big == Big(IF amount = "" THEN "0" ELSE amount)
    IN  IF big = NaB THEN amount
        ELSE IF decimals > 0
        THEN trimFraction(BigToFixed(BigDivPow10(big, decimals), DisplayDigits))
        ELSE BigToString(big)

(***************************************************************************)
(* Regular expressions of the fast-path extractors.  A pattern is a        *)
(* sequence of elements matched left to right with JavaScript's            *)
(* backtracking priorities: repetitions are greedy, an optional group is   *)
(* tried before it is skipped, alternatives are tried in order, and the    *)
(* leftmost start wins.  All patterns carry the i flag.                    *)
(***************************************************************************)
Lit(text) == [k |-> "lit", text |-> text]

Cls(cls, min) == [k |-> "cls", cls |-> cls, min |-> min]

Opt(sub) == [k |-> "opt", sub |-> sub]

Alt(subs) == [k |-> "alt", subs |-> subs]

Mark(name) == [k |-> "mark", name |-> name]

WordBoundary == [k |-> "wb"]

InClass(cls, c) ==
    CASE cls = "digit" -> IsDigit(c)
      [] cls = "space" -> IsSpace(c)
      [] cls = "worddash" -> IsWordDash(c)

RECURSIVE ClassRun(_, _, _)
ClassRun(cls, s, i) ==
    IF i <= Len(s) /\ InClass(cls, Char(s, i)) THEN 1 + ClassRun(cls, s, i + 1) ELSE 0

AtWordBoundary(s, i) ==
    (i > 1 /\ IsWordChar(Char(s, i - 1))) # (i <= Len(s) /\ IsWordChar(Char(s, i)))

NoMatch == [ok |-> FALSE]

RECURSIVE MatchFrom(_, _, _, _)
RECURSIVE TryRep(_, _, _, _, _, _)
RECURSIVE TryAlt(_, _, _, _, _)
MatchFrom(pat, s, i, marks) ==
    IF pat = <<>> THEN [ok |-> TRUE, marks |-> marks, end |-> i]
    ELSE LET el == Head(pat)
             rest == Tail(pat)
         IN  CASE el.k = "mark" -> MatchFrom(rest, s, i, (el.name :> i) @@ marks)
               [] el.k = "wb" ->
                    IF AtWordBoundary(s, i) THEN MatchFrom(rest, s, i, marks) ELSE NoMatch
               [] el.k = "lit" ->
                    IF /\ i + Len(el.text) - 1 <= Len(s)
                       /\ toLowerCase(SubSeq(s, i, i + Len(el.text) - 1)) = el.text
                    THEN MatchFrom(rest, s, i + Len(el.text), marks)
                    ELSE NoMatch
               [] el.k = "cls" ->
                    LET run == ClassRun(el.cls, s, i)
                    IN  IF run < el.min THEN NoMatch ELSE TryRep(rest, s, i, marks, run, el.min)
               [] el.k = "opt" ->
                    LET r == MatchFrom(el.sub \o rest, s, i, marks)
                    IN  IF r.ok THEN r ELSE MatchFrom(rest, s, i, marks)
               [] el.k = "alt" -> TryAlt(el.subs, rest, s, i, marks)

\* greedy repetition: the longest run first, giving back one character at a time
TryRep(rest, s, i, marks, n, min) ==
    LET r == MatchFrom(rest, s, i + n, marks)
    IN  IF r.ok THEN r
        ELSE IF n > min THEN TryRep(rest, s, i, marks, n - 1, min)
        ELSE NoMatch

TryAlt(subs, rest, s, i, marks) ==
    IF subs = <<>> THEN NoMatch
    ELSE LET r == MatchFrom(Head(subs) \o rest, s, i, marks)
         IN  IF r.ok THEN r ELSE TryAlt(Tail(subs), rest, s, i, marks)

\* text.match(re): the match at the leftmost position where one exists
RECURSIVE SearchFrom(_, _, _)
SearchFrom(pat, s, i) ==
    IF i > Len(s) + 1 THEN NoMatch
    ELSE LET r == MatchFrom(pat, s, i, <<>>)
         IN  IF r.ok THEN r ELSE SearchFrom(pat, s, i + 1)

Match(pat, s) == SearchFrom(pat, s, 1)

Group(s, m, from, to) == SubSeq(s, m.marks[from], m.marks[to] - 1)

Spaces1 == Cls("space", 1)

\* (?:\s+tokens?)?
OptTokens == Opt(<<Spaces1, Lit("token"), Opt(<<Lit("s")>>)>>)

\* /\b(send|transfer)\s+(all|max)(?:\s+my)?\s+([a-z0-9_-]{2,})(?:\s+tokens?)?\s+to\s+([A-Za-z0-9_-]{20,})/i
allRe ==
    <<WordBoundary, Alt(<<(<<Lit("send")>>), (<<Lit("transfer")>>)>>), Spaces1,
      Mark("g2"), Alt(<<(<<Lit("all")>>), (<<Lit("max")>>)>>), Mark("g2e"),
      Opt(<<Spaces1, Lit("my")>>), Spaces1,
      Mark("g3"), Cls("worddash", 2), Mark("g3e"),
      OptTokens, Spaces1, Lit("to"), Spaces1,
      Mark("g4"), Cls("worddash", 20), Mark("g4e")>>

\* /\b(send|transfer)\s+([0-9]+(?:\.[0-9]+)?)\s*([a-z0-9_-]{2,})(?:\s+tokens?)?\s+to\s+([A-Za-z0-9_-]{20,})/i
amtRe ==
    <<WordBoundary, Alt(<<(<<Lit("send")>>), (<<Lit("transfer")>>)>>), Spaces1,
      Mark("g2"), Cls("digit", 1), Opt(<<Lit("."), Cls("digit", 1)>>), Mark("g2e"),
      Cls("space", 0),
      Mark("g3"), Cls("worddash", 2), Mark("g3e"),
      OptTokens, Spaces1, Lit("to"), Spaces1,
      Mark("g4"), Cls("worddash", 20), Mark("g4e")>>

\* /\bswap\s+([0-9]+(?:\.[0-9]+)?)\s+([a-z0-9_-]{2,})\s+to\s+([a-z0-9_-]{2,})/i
swapRe ==
    <<WordBoundary, Lit("swap"), Spaces1,
      Mark("g1"), Cls("digit", 1), Opt(<<Lit("."), Cls("digit", 1)>>), Mark("g1e"),
      Spaces1,
      Mark("g2"), Cls("worddash", 2), Mark("g2e"),
      Spaces1, Lit("to"), Spaces1,
      Mark("g3"), Cls("worddash", 2), Mark("g3e")>>

\* /(what'?s|what\s+is)\s+my\s+([a-z0-9_-]{2,})\s+balance/i
specificBalanceRe ==
    <<Alt(<<(<<Lit("what"), Opt(<<Lit("'")>>), Lit("s")>>), (<<Lit("what"), Spaces1, Lit("is")>>)>>),
      Spaces1, Lit("my"), Spaces1,
      Mark("g2"), Cls("worddash", 2), Mark("g2e"),
      Spaces1, Lit("balance")>>

\* /\b(list\s+balances\s+for|holders\s+for)\s+([A-Za-z0-9_-]{20,})/i
listBalancesRe ==
    <<WordBoundary,
      Alt(<<(<<Lit("list"), Spaces1, Lit("balances"), Spaces1, Lit("for")>>),
            (<<Lit("holders"), Spaces1, Lit("for")>>)>>),
      Spaces1,
      Mark("g2"), Cls("worddash", 20), Mark("g2e")>>

\* null where a record is expected, and where a text is expected
NullRec == [null |-> TRUE]

Null == "<null>"

\* parseTransferRequest matching the lower-cased text, so that the captures lose their case
parseTransferRequest_LowerCased(text) ==
    LET lower == toLowerCase(text)
        mAll == Match(allRe, lower)
        mAmt == Match(amtRe, lower)
    IN  IF mAll.ok
        THEN [amountRaw |-> "all", isAll |-> TRUE,
              tokenSymbol |-> Group(lower, mAll, "g3", "g3e"),
              recipient |-> Group(lower, mAll, "g4", "g4e")]
        ELSE IF mAmt.ok
        THEN [amountRaw |-> Group(lower, mAmt, "g2", "g2e"), isAll |-> FALSE,
              tokenSymbol |-> Group(lower, mAmt, "g3", "g3e"),
              recipient |-> Group(lower, mAmt, "g4", "g4e")]
        ELSE NullRec

\* parseTransferRequest(text)
parseTransferRequest(text) ==
    LET mAll == Match(allRe, text)
        mAmt == Match(amtRe, text)
    IN  IF mAll.ok
        THEN [amountRaw |-> "all", isAll |-> TRUE,
              tokenSymbol |-> Group(text, mAll, "g3", "g3e"),
              recipient |-> Group(text, mAll, "g4", "g4e")]
        ELSE IF mAmt.ok
        THEN [amountRaw |-> Group(text, mAmt, "g2", "g2e"), isAll |-> FALSE,
              tokenSymbol |-> Group(text, mAmt, "g3", "g3e"),
              recipient |-> Group(text, mAmt, "g4", "g4e")]
        ELSE NullRec

\* parseSwapRequest(text)
parseSwapRequest(text) ==
    LET m == Match(swapRe, text)
    IN  IF ~m.ok THEN NullRec
        ELSE [amountRaw |-> Group(text, m, "g1", "g1e"),
              fromSymbol |-> Group(text, m, "g2", "g2e"),
              toSymbol |-> Group(text, m, "g3", "g3e")]

\* parseSpecificBalanceRequest(text)
parseSpecificBalanceRequest(text) ==
    LET m == Match(specificBalanceRe, text)
    IN  IF ~m.ok THEN Null ELSE toUpperCase(Group(text, m, "g2", "g2e"))

(***************************************************************************)
(* Token registry: SUPPORTED_TOKENS and getDecimalsByAliasOrId             *)
(***************************************************************************)
Undefined == "<undefined>"

\* defaults of AO_NATIVE_TOKEN_PROCESS_ID and AO_ARIO_TOKEN_PROCESS_ID
NativeTokenProcessId == "0syT13r0s0tgPmIed95bJnuSqaD29HQNN8D3ElLSrsc"

ArioTokenProcessId == "qNvAoz0TgcH7DMg8BCVn8jF32QH5L6T29VjHxhHqqGE"

SUPPORTED_TOKENS ==
    [AO |-> NativeTokenProcessId,
     ARIO |-> ArioTokenProcessId,
     WAR |-> "xU9zFkq3X2ZQ6olwNVvr1vUWIjc3kXTWr7xKQD6dh10",
     WUSDC |-> "7zH9dlMNoxprab9loshv3Y7WG45DOny_Vrq9KrXObdQ",
     WUSDT |-> "7j3jUyFpTuepg_uu_sJnwLE6KiTVuA9cLrkfOp2MFlo",
     WETH |-> "cBgS-V_yGhOe9P1wCIuNSgDA_JS8l4sE5iFcPTr0TD0",
     USDA |-> "FBt9A5GA_KXMMSxA2DJ0xZbAq8sLLU2ak-YJe9zDvg8",
     VAR |-> "y-p7CPhs6JMUStAuE4KeTnMXN7qYBvEi2hiBFk8ZhjM",
     VUSDC |-> "cxkFiGP89fEKOvbvl9SLs1lEaw0L-DWJiqQOuDPeDG8",
     VDAI |-> "Q5Qk5W_AOUou2nRu1RlEpfr8yzKmWJ98tQb8QEyYqx4",
     VETH |-> "SGUZMZ1toA4k5wlDNyDtHQThf1SEAOLNwiE8TzsnSgw"]

\* this.SUPPORTED_TOKENS[key]
TokenId(key) == IF key \in DOMAIN SUPPORTED_TOKENS THEN SUPPORTED_TOKENS[key] ELSE Undefined

\* Object.entries(this.SUPPORTED_TOKENS).find(([, id]) => id === processId)?.[0]
AliasOfId(processId) ==
    IF \E a \in DOMAIN SUPPORTED_TOKENS : SUPPORTED_TOKENS[a] = processId
    THEN CHOOSE a \in DOMAIN SUPPORTED_TOKENS : SUPPORTED_TOKENS[a] = processId
    ELSE Undefined

\* the aliasToDecimals table of getDecimalsByAliasOrId under configuration cfg
aliasToDecimals(cfg) ==
    [AO |-> cfg.nativeTokenDecimals, ARIO |-> cfg.arioTokenDecimals,
     WETH |-> 18, VETH |-> 18, WAR |-> 12, WUSDC |-> 12, WUSDT |-> 12,
     USDA |-> 12, VAR |-> 12, VUSDC |-> 12, VDAI |-> 12]

\* getDecimalsByAliasOrId looking the alias up as written, without toUpperCase
getDecimalsByAliasOrId_CaseSensitive(cfg, token) ==
    IF TokenId(token) # Undefined THEN aliasToDecimals(cfg)[token]
    ELSE IF AliasOfId(token) # Undefined THEN aliasToDecimals(cfg)[AliasOfId(token)]
    ELSE 0

\* getDecimalsByAliasOrId(token) under configuration cfg
getDecimalsByAliasOrId(cfg, token) ==
    LET upper == toUpperCase(token)
    IN  IF TokenId(upper) # Undefined THEN aliasToDecimals(cfg)[upper]
        ELSE IF AliasOfId(token) # Undefined THEN aliasToDecimals(cfg)[AliasOfId(token)]
        ELSE 0

(***************************************************************************)
(* Inputs and outcomes of the collaborators, drawn from bounded sets       *)
(***************************************************************************)
\* configurations of AO_NATIVE_TOKEN_DECIMALS (Joi: integer, min 0, default 12)
NativeDecimalsChoices == {0, 12}

ArioDecimalsChoices == {6}

Recipient == "9f8e7d6c5b4a3f2e1d0c9b8a7f6e5d4c3b2a1f0e"

OwnerAddress == "OWNERwallet_0123456789abcdefghijklmnopqrstu"

UnregisteredProcessId == "ZZZunregistered_process_id_0123456789abcdef"

MessageId == "MSGid_0001"

SwapMessageId == "SWAPid_0001"

\* inbound chat messages
Messages ==
    {"send 0.1 AO to " \o Recipient,
     "send 5 AO to " \o Recipient,
     "send 0 AO to " \o Recipient,
     "Send 1000.5 weth to " \o Recipient,
     "send 1.2345678 ario to " \o Recipient,
     "transfer 2.50 usda tokens to " \o Recipient,
     "send 5 FOO to " \o Recipient,
     "send ALL my usda to " \o Recipient,
     "please Transfer Max ao tokens to " \o Recipient,
     "send all foo to " \o Recipient,
     "send me some money",
     "swap 0.1 ao to ario",
     "swap 3 AO to FOO",
     "swap all ao to ario",
     "please swap Max ao to ario",
     "what is my wallet address",
     "what^s my address",
     "show my address and my balance",
     "what's my ARIO balance",
     "what is my balance",
     "list balances for " \o ArioTokenProcessId,
     "my balance? then send 5 AO to " \o Recipient,
     "my address, my balance, and send 5 AO to " \o Recipient,
     "hello there"}

\* JSON inputs the agent hands to the transfer-asset tool ("" is an absent field)
ToolAmounts == {"5", "0.1", "0", "0.0000000000001", "1000", "all", "MAX", "5abc"}

ToolTokens ==
    {[tokenSymbol |-> "AO", tokenProcessId |-> ""],
     [tokenSymbol |-> "weth", tokenProcessId |-> ""],
     [tokenSymbol |-> "FOO", tokenProcessId |-> ""],
     [tokenSymbol |-> "", tokenProcessId |-> ArioTokenProcessId],
     [tokenSymbol |-> "", tokenProcessId |-> UnregisteredProcessId],
     [tokenSymbol |-> "", tokenProcessId |-> ""]}

TransferToolInputs ==
    {[recipientAddress |-> Recipient, amount |-> a, tokenSymbol |-> t.tokenSymbol,
      tokenProcessId |-> t.tokenProcessId] : a \in ToolAmounts, t \in ToolTokens}
    \cup {[recipientAddress |-> "", amount |-> "5", tokenSymbol |-> "AO", tokenProcessId |-> ""],
          [recipientAddress |-> Recipient, amount |-> "", tokenSymbol |-> "AO", tokenProcessId |-> ""]}

\* JSON inputs the agent hands to the swap-tokens tool
SwapToolInputs ==
    {[amount |-> a, from |-> f, to |-> "ario"] : a \in {"0.1", "1000", "all", "MAX"}, f \in {"ao", "WETH", "foo"}}

\* getUserByTelegramId: a user with a wallet, no user, a user without wallet, a failure
UserStoreOutcomes == {"found", "none", "nowallet", "throws"}

UserOf(o) ==
    CASE o = "found" -> [walletAddress |-> OwnerAddress, encryptedPrivateKey |-> "enc"]
      [] o = "nowallet" -> [walletAddress |-> "", encryptedPrivateKey |-> ""]
      [] o = "none" -> NullRec

\* encryptionService.decrypt, JSON.parse and createDataItemSigner
DecryptOutcomes == {"ok", "throws"}

\* results of the dryrun of the Balance action: Messages[0].Data and its Balance tag
\* ("" is an absent or empty field), or no message at all, or a failure
DryrunOutcomes ==
    {[kind |-> "ok", hasMsg |-> TRUE, data |-> "1500000000000", tag |-> "15"],
     [kind |-> "ok", hasMsg |-> TRUE, data |-> "", tag |-> "42"],
     [kind |-> "ok", hasMsg |-> TRUE, data |-> "0", tag |-> "0"],
     [kind |-> "ok", hasMsg |-> TRUE, data |-> "12.50", tag |-> ""],
     [kind |-> "ok", hasMsg |-> FALSE, data |-> "", tag |-> ""],
     [kind |-> "throws", hasMsg |-> FALSE, data |-> "", tag |-> ""]}

\* aoConnect.message: a message id or a failure
SubmitOutcomes == {"ok", "throws"}

\* aoConnect.result: a result, a result carrying Error, or a failure
ResultOutcomes == {"ok", "error", "throws"}

\* client.getSwapQuote and client.executeSwap
QuoteOutcomes == {"route", "noroute", "throws"}

ExecuteOutcomes == {"ok", "throws"}

\* agent.invoke: one step of the tool-calling loop
LlmErrors == {"Incorrect API key provided", "rate limit reached", "network timeout", "boom"}

LlmOutputs == {"Here is my answer.", ""}

(***************************************************************************)
(* State of one processMessage invocation                                  *)
(***************************************************************************)
VARIABLES
    config,     \* config.ao: the configured decimals of AO and ARIO
    pc,         \* the await at which the invocation stands
    msg,        \* userMessage
    exec,       \* the executor that is running: fast path or tool, transfer or swap
    tool,       \* the parsed JSON input of the running tool
    loc,        \* the locals of the running executor
    calls,      \* external calls of the running executor, in the order issued
    reply,      \* the text processMessage returned
    handler,    \* the branch of processMessage in which the reply was produced
    iter,       \* iterations of the agent's tool-calling loop
    toolReply   \* the text the last tool returned to the agent

(***************************************************************************)
(* State of TelegramBotService: the conversationHistory map.  A JavaScript *)
(* array is an object: the map and the local variable history of a running *)
(* handler can hold the same array, so arrays live in a heap and are       *)
(* referred to by reference.                                               *)
(***************************************************************************)
VARIABLES
    conversationHistory,  \* telegramId -> reference of the stored array, 0 when absent
    heap,                 \* reference -> the array's turns
    hs,                   \* the running handleConversationMessage invocations
    nmsg,                 \* telegramId -> number of messages whose user turn was appended
    cleared,              \* telegramId -> handleStopConversation has deleted the user's window
    resetAt               \* telegramId -> the number of messages appended when the window was last deleted

(***************************************************************************)
(* State of the application of one pure function to one input              *)
(***************************************************************************)
VARIABLES
    fnIn,       \* the function applied and its input
    fnOut,      \* the results so far, in the order computed
    fnPc        \* "ready" before the first application, "done" after the last

(***************************************************************************)
(* State of several processMessage invocations that send all of one token  *)
(* of one wallet                                                           *)
(***************************************************************************)
VARIABLES
    ledger,     \* the wallet's balance at the token process: when first read, and now
    xfers,      \* invocation -> its await, the balance it read and its Quantity
    submitted   \* the Transfer messages submitted, in order: invocation and Quantity

fnVars == <<fnIn, fnOut, fnPc>>

walletVars == <<ledger, xfers, submitted>>

pmVars == <<config, pc, msg, exec, tool, loc, calls, reply, handler, iter, toolReply>>

convVars == <<conversationHistory, heap, hs, nmsg, cleared, resetAt>>

vars == <<config, pc, msg, exec, tool, loc, calls, reply, handler, iter, toolReply,
          conversationHistory, heap, hs, nmsg, cleared, resetAt, fnIn, fnOut, fnPc,
          ledger, xfers, submitted>>

\* bounds of the conversation model
NumUsers == 2

NumHandlers == 2

MaxMessages == 11

Users == 1..NumUsers

Handlers == 1..NumHandlers

Refs == 1..(NumUsers + NumHandlers + 1)

HandlerIdle == [pc |-> "idle", user |-> 0, history |-> 0, n |-> 0, context |-> <<>>]

LocInit ==
    [user |-> NullRec, amountRaw |-> "", recipient |-> "", isAll |-> FALSE, tokenSymbol |-> "",
     processId |-> "", quantity |-> "", messageId |-> "", fromSymbol |-> "", toSymbol |-> "",
     alias |-> "", quote |-> "", balances |-> <<>>, listed |-> <<>>, holders |-> <<>>]

(***************************************************************************)
(* Safe delivery (safeSendMessage, safeEditMessage) and the inputs of the  *)
(* functions that are applied to one input at a time                       *)
(***************************************************************************)
\* outcomes of ctx.reply and ctx.editMessageText: success, or an error with its code and
\* description (0 and "" when the error carries none)
TransportOutcomes ==
    {[ok |-> TRUE, code |-> 0, description |-> ""],
     [ok |-> FALSE, code |-> 403, description |-> "Forbidden: bot was blocked by the user"],
     [ok |-> FALSE, code |-> 403, description |-> ""],
     [ok |-> FALSE, code |-> 400, description |-> "Bad Request: chat not found"],
     [ok |-> FALSE, code |-> 400, description |-> "Bad Request: message is too long"],
     [ok |-> FALSE, code |-> 400, description |-> ""],
     [ok |-> FALSE, code |-> 429, description |-> "Too Many Requests: retry after 5"],
     [ok |-> FALSE, code |-> 404, description |-> "Not Found: chat not found"],
     [ok |-> FALSE, code |-> 0, description |-> ""]}

\* the catch block shared by the two functions: the value returned, or the error re-thrown
SafeDelivery(o) ==
    IF o.ok THEN [returns |-> "true", thrown |-> NullRec]
    ELSE IF o.code = 403 THEN [returns |-> "false", thrown |-> NullRec]
    ELSE IF o.code = 400 /\ includes(o.description, "chat not found")
    THEN [returns |-> "false", thrown |-> NullRec]
    ELSE [returns |-> "none", thrown |-> o]

\* safeSendMessage returning false for every transport error
safeSendMessage_SwallowsAll(o) ==
    IF o.ok THEN [returns |-> "true", thrown |-> NullRec] ELSE [returns |-> "false", thrown |-> NullRec]

\* safeSendMessage(ctx, message, options) when ctx.reply has outcome o
safeSendMessage(o) == SafeDelivery(o)

\* safeEditMessage(ctx, message, options) when ctx.editMessageText has outcome o
safeEditMessage(o) == SafeDelivery(o)

\* the bot handlers followed step by step: a command that delivers through safe
\* delivery, the two commands that are also callbacks, and the text handler
BotHandlers == {"handleBalance", "handleSend", "handleHistory", "onText"}

\* one awaited step of a handler: an outbound send or edit (through safe delivery or
\* on ctx directly), the typing indicator, or a call of a collaborator; stops tells
\* that the handler returns when the safe delivery returns false
Step(op, via, stops) == [op |-> op, via |-> via, stops |-> stops]

\* the awaited steps of the try block of a handler, in order
TryBody(h) ==
    CASE h = "handleBalance" ->
           <<Step("send", "safe", TRUE), Step("call", "none", FALSE), Step("edit", "safe", FALSE)>>
      [] h = "handleSend" -> <<Step("send", "direct", FALSE)>>
      [] h = "handleHistory" ->
           <<Step("send", "direct", FALSE), Step("call", "none", FALSE), Step("edit", "direct", FALSE)>>
      [] h = "onText" ->
           <<Step("typing", "direct", FALSE), Step("call", "none", FALSE), Step("send", "safe", TRUE)>>

\* the deliveries of the catch blocks around the try block, innermost first
CatchBlocks(h) ==
    CASE h = "handleBalance" -> <<Step("send", "safe", FALSE)>>
      [] h = "handleSend" -> <<Step("send", "direct", FALSE)>>
      [] h = "handleHistory" -> <<Step("send", "direct", FALSE)>>
      [] h = "onText" -> <<Step("send", "safe", FALSE), Step("send", "direct", FALSE)>>

\* what a step can meet: a transport outcome, or for a collaborator success or an Error
StepOutcomes(step) ==
    IF step.op = "call"
    THEN {[ok |-> TRUE, code |-> 0, description |-> ""], [ok |-> FALSE, code |-> 0, description |-> ""]}
    ELSE TransportOutcomes

\* the awaited step is left by an exception
Throws(step, o) ==
    IF step.via = "safe" THEN safeSendMessage(o).thrown # NullRec ELSE ~o.ok

\* the awaited safe delivery returns false and the handler returns at once
StopsHandler(step, o) ==
    step.via = "safe" /\ step.stops /\ safeSendMessage(o).returns = "false"

\* display amounts and decimals of the conversion to base units and back
RoundTripAmounts ==
    {"5", "0.1", "2.50", "0.001", "1.2345678", "0.0000001", "1000", "0.999999", "123.456", "0.0000005",
     "1000000000000000000000"}

RoundTripDecimals == {0, 2, 6, 12, 18}

NoInput == [fn |-> "none", x |-> "", d |-> 0, outcome |-> NullRec]

\* token texts given to getDecimalsByAliasOrId: aliases in several letter cases,
\* process ids, and texts that are neither
DecimalsTokens ==
    {"AO", "ao", "Ao", "ARIO", "ario", "aRiO", "WETH", "weth", "VETH", "veth", "WAR", "war",
     "WUSDC", "wusdc", "WUSDT", "wUsDt", "USDA", "usda", "VAR", "var", "VUSDC", "vusdc",
     "VDAI", "vdai"}
    \cup {SUPPORTED_TOKENS[a] : a \in DOMAIN SUPPORTED_TOKENS}
    \cup {"", "BTC", "AOX", "A", " ao", "ao ", "constructor", "tostring", "TOKENS",
          toLowerCase(NativeTokenProcessId), SubSeq(ArioTokenProcessId, 1, 42),
          "ZZZunregistered_process_id_0123456789abcdef"}

\* the parts of the well-formed transfer and swap messages given to the extractors
RequestVerbs == {"send", "Transfer", "please SEND"}

RequestNumbers == {"0.1", "5", "100", "1.50"}

RequestAllClauses == {"all", "MAX", "all my", "Max My"}

RequestAliases == {"AO", "ao", "wUSDC"}

RequestRecipients == {Recipient, OwnerAddress, "AbCdEfGhIjKlMnOpQrSt"}

RequestEndings == {"", " thanks"}

TransferParts ==
    [verb : RequestVerbs, amount : RequestNumbers \cup RequestAllClauses, alias : RequestAliases,
     recipient : RequestRecipients, ending : RequestEndings]

SwapParts ==
    [verb : {"swap", "please Swap"}, amount : RequestNumbers, alias : RequestAliases,
     recipient : {"ario", "AO", "Usda"}, ending : RequestEndings]

\* the message written from the parts
RequestText(parts) ==
    parts.verb \o " " \o parts.amount \o " " \o parts.alias \o " to " \o parts.recipient \o parts.ending

\* request bodies of POST /users/:telegramId/send; "" stands for a missing field
SendBodies ==
    [processId : {"", NativeTokenProcessId}, recipient : {"", Recipient}, quantity : {"", "1000"}]

FnInputs ==
    {[fn |-> "roundTrip", x |-> x, d |-> d, outcome |-> NullRec] :
        x \in RoundTripAmounts, d \in RoundTripDecimals}
    \cup {[fn |-> "parseTransferRequest", x |-> RequestText(parts), d |-> 0, outcome |-> NullRec,
           parts |-> parts] : parts \in TransferParts}
    \cup {[fn |-> "parseSwapRequest", x |-> RequestText(parts), d |-> 0, outcome |-> NullRec,
           parts |-> parts] : parts \in SwapParts}
    \cup {[fn |-> "getDecimalsByAliasOrId", x |-> t, d |-> 0, outcome |-> NullRec] : t \in DecimalsTokens}
    \cup {[fn |-> f, x |-> "", d |-> 0, outcome |-> o] :
        f \in {"safeSendMessage", "safeEditMessage"}, o \in TransportOutcomes}
    \cup {[fn |-> "handler", x |-> h, d |-> 0, outcome |-> NullRec] : h \in BotHandlers}
    \cup {[fn |-> "sendTokens", x |-> "", d |-> 0, outcome |-> NullRec, body |-> b] : b \in SendBodies}

ProgramInit ==
    /\ config \in [nativeTokenDecimals : NativeDecimalsChoices, arioTokenDecimals : ArioDecimalsChoices]
    /\ pc = "idle"
    /\ msg = ""
    /\ exec = "none"
    /\ tool = NullRec
    /\ loc = LocInit
    /\ calls = <<>>
    /\ reply = Null
    /\ handler = "none"
    /\ iter = 0
    /\ toolReply = Null
    /\ conversationHistory = [u \in Users |-> 0]
    /\ heap = [r \in Refs |-> <<>>]
    /\ hs = [h \in Handlers |-> HandlerIdle]
    /\ nmsg = [u \in Users |-> 0]
    /\ cleared = [u \in Users |-> FALSE]
    /\ resetAt = [u \in Users |-> 0]

\* the number of send-all invocations of one wallet that run at the same time
NumTransfers == 2

Invocations == 1..NumTransfers

XferIdle == [pc |-> "idle", bal |-> "", quantity |-> ""]

\* no send-all invocation is being followed
WalletIdle ==
    /\ ledger = [opening |-> 0, now |-> 0]
    /\ xfers = [i \in Invocations |-> XferIdle]
    /\ submitted = <<>>

Init ==
    /\ ProgramInit
    /\ WalletIdle
    /\ fnIn = NoInput
    /\ fnOut = <<>>
    /\ fnPc = "off"

\* one function is about to be applied to one input
InitFn ==
    /\ ProgramInit
    /\ WalletIdle
    /\ fnIn \in FnInputs
    /\ fnOut = <<>>
    /\ fnPc = "ready"

(***************************************************************************)
(* Intent flags of processMessage                                          *)
(***************************************************************************)
normLowerOf(userMessage) == normalizeQuotes(toLowerCase(userMessage))

normQuotesOf(userMessage) == normalizeQuotes(userMessage)

asksForAddress(normLower) ==
    \/ includes(normLower, "wallet") /\ includes(normLower, "address")
    \/ includes(normLower, "my address")
    \/ includes(normLower, "what is my address")
    \/ includes(normLower, "whats my address")
    \/ includes(normLower, "what's my address")

\* asksForMyBalance never holding, so that a later matcher takes the message
asksForMyBalance_Never(normLower) == FALSE

asksForMyBalance(normLower) ==
    \/ includes(normLower, "my balance")
    \/ includes(normLower, "what's my balance")
    \/ includes(normLower, "whats my balance")
    \/ includes(normLower, "balance") /\ includes(normLower, "my")

asksForTransfer(normLower) ==
    \/ startsWith(normLower, "send ")
    \/ startsWith(normLower, "transfer ")
    \/ includes(normLower, " send ")
    \/ includes(normLower, " transfer ")

asksForSwap(normLower) == startsWith(normLower, "swap ") \/ includes(normLower, " swap ")

listBalancesForTokenMatch(normQuotes) == Match(listBalancesRe, normQuotes)

specificTokenBalanceAlias(normQuotes) == parseSpecificBalanceRequest(normQuotes)

(***************************************************************************)
(* Texts.  The emoji prefixes of the source are written [x], [ok], [swap]; *)
(* line breaks are written " / " and the code quotes around a value '.     *)
(***************************************************************************)
WalletNotFoundText == "Wallet not found. Please create a wallet first using /start"

TransferUsageText == "Please specify an amount, token, and recipient. Example: 'send 0.1 AO to <address>' or 'send all USDA to <address>'."

SwapUsageText == "Please specify swap like 'swap 0.1 AO to ARIO'"

SwapUnsupportedText == "[x] Token not supported. Supported: AO, ARIO, WAR, WUSDC, WUSDT, WETH, USDA, VAR, VUSDC, VDAI, VETH"

NoRouteText == "[x] No swap route found for requested pair/amount."

ApologyText == "I apologize, but I couldn't process your request. Please try again."

MaxIterationsText == "Agent stopped due to max iterations."

BigInvalidNumber == "[big.js] Invalid number"

\* tokenSymbol?.toUpperCase() || <alias of processId> || "TOKENS"
SymOf(tokenSymbol, processId) ==
    IF tokenSymbol # "" THEN toUpperCase(tokenSymbol)
    ELSE IF AliasOfId(processId) # Undefined THEN AliasOfId(processId)
    ELSE "TOKENS"

\* the catch block of processMessage
OuterCatchText(message) ==
    IF includes(message, "API key") THEN "[x] AI service configuration error. Please contact support."
    ELSE IF includes(message, "rate limit") THEN "[wait] AI service is busy. Please wait a moment and try again."
    ELSE IF includes(message, "network") \/ includes(message, "timeout")
    THEN "[net] Network error. Please check your connection and try again."
    ELSE "[x] I encountered an error processing your request. Please try again or contact support."

\* getRawBalance reading the Balance tag before Data
getRawBalance_TagFirst(res) ==
    IF res.hasMsg /\ res.tag # "" THEN res.tag
    ELSE IF res.hasMsg /\ res.data # "" THEN res.data
    ELSE "0"

\* String(raw) of getRawBalance for a dryrun result
getRawBalance(res) ==
    IF res.hasMsg /\ res.data # "" THEN res.data
    ELSE IF res.hasMsg /\ res.tag # "" THEN res.tag
    ELSE "0"

\* the sign class of parseFloat(text): optional blanks and sign, then the longest decimal prefix
parseFloat(text) ==
    LET t == trimStart(text)
        a == IF t # "" /\ Char(t, 1) \in {"+", "-"} THEN 2 ELSE 1
        d1 == DigitRun(t, a)
        dot == a + d1 <= Len(t) /\ Char(t, a + d1) = "."
        d2 == IF dot THEN DigitRun(t, a + d1 + 1) ELSE 0
        digs == SubSeq(t, a, a + d1 - 1) \o (IF dot THEN SubSeq(t, a + d1 + 1, a + d1 + d2) ELSE "")
    IN  IF d1 = 0 /\ d2 = 0 THEN "NaN"
        ELSE IF AllZeros(digs) THEN "zero"
        ELSE IF a = 2 /\ Char(t, 1) = "-" THEN "negative"
        ELSE "positive"

(***************************************************************************)
(* processMessage: dispatch                                                *)
(***************************************************************************)
\* an external call: the operation, its argument and its outcome
Call(op, arg, out) == [op |-> op, arg |-> arg, out |-> out]

\* the positions of the calls of kind op in a log
CallsOfLog(log, op) == {i \in DOMAIN log : log[i].op = op}

Goto(p, h, e, l, r) ==
    /\ pc' = p
    /\ handler' = h
    /\ exec' = e
    /\ loc' = l
    /\ reply' = r

\* processMessage returns text from branch h
Return(h, text) ==
    /\ pc' = "done"
    /\ handler' = h
    /\ reply' = text
    /\ UNCHANGED <<exec, loc>>

\* the matchers after the address query, up to the first await of the branch taken
DispatchRest(userMessage) ==
    LET normLower == normLowerOf(userMessage)
        normQuotes == normQuotesOf(userMessage)
        alias == specificTokenBalanceAlias(normQuotes)
        lm == listBalancesForTokenMatch(normQuotes)
        parsedT == parseTransferRequest(normQuotes)
        parsedS == parseSwapRequest(normQuotes)
    IN  IF alias # Null
        THEN Goto("specific", "specific", "none", [LocInit EXCEPT !.alias = alias], Null)
        ELSE IF asksForMyBalance(normLower)
        THEN Goto("aggregate", "aggregate", "none", LocInit, Null)
        ELSE IF lm.ok
        THEN Goto("list", "list", "none",
                  [LocInit EXCEPT !.processId = Group(normQuotes, lm, "g2", "g2e")], Null)
        ELSE IF asksForTransfer(normLower)
        THEN IF parsedT = NullRec
             THEN Goto("done", "transfer", "none", LocInit, TransferUsageText)
             ELSE Goto("ft_lookup", "transfer", "fastTransfer",
                       [LocInit EXCEPT !.amountRaw = parsedT.amountRaw,
                                       !.recipient = parsedT.recipient,
                                       !.isAll = parsedT.isAll,
                                       !.tokenSymbol = parsedT.tokenSymbol], Null)
        ELSE IF asksForSwap(normLower)
        THEN IF parsedS = NullRec
             THEN Goto("done", "swap", "none", LocInit, SwapUsageText)
             ELSE Goto("fs_lookup", "swap", "fastSwap",
                       [LocInit EXCEPT !.amountRaw = parsedS.amountRaw,
                                       !.fromSymbol = parsedS.fromSymbol,
                                       !.toSymbol = parsedS.toSymbol], Null)
        ELSE Goto("agent", "agent", "none", LocInit, Null)

\* processMessage is called with userMessage
Receive(userMessage) ==
    /\ pc = "idle"
    /\ msg' = userMessage
    /\ calls' = <<>>
    /\ IF asksForAddress(normLowerOf(userMessage))
       THEN Goto("address", "none", "none", LocInit, Null)
       ELSE DispatchRest(userMessage)
    /\ UNCHANGED <<convVars, fnVars, walletVars, config, tool, iter, toolReply>>

\* if (asksForAddress): getUserByTelegramId returns
AddressLookup ==
    /\ pc = "address"
    /\ \E o \in UserStoreOutcomes :
         IF o = "throws"
         THEN Goto("done", "address", "none", LocInit, OuterCatchText("Failed to get user"))
         ELSE IF UserOf(o) # NullRec /\ UserOf(o).walletAddress # ""
         THEN Goto("done", "address", "none", LocInit,
                   "Your wallet address is: '" \o UserOf(o).walletAddress \o "'")
         ELSE DispatchRest(msg)
    /\ UNCHANGED <<convVars, fnVars, walletVars, config, msg, tool, calls, iter, toolReply>>

\* getFormattedUserBalanceForToken returns (it catches its own failures)
SpecificBalance ==
    /\ pc = "specific"
    /\ \E text \in {WalletNotFoundText, loc.alias \o " Balance / 1.5 " \o loc.alias,
                    "Error fetching token balance."} :
         Return("specific", text)
    /\ UNCHANGED <<convVars, fnVars, walletVars, config, msg, tool, calls, iter, toolReply>>

(***************************************************************************)
(* summarizeUserBalances: the per-user multi-token summary                 *)
(***************************************************************************)
\* config.ao.trackedTokens: AO_TRACKED_TOKENS configured with two process ids
TrackedTokens == <<NativeTokenProcessId, ArioTokenProcessId>>

\* results of the Balance dryrun of one tracked token: Data, the Balance and Ticker tags
AggDryrunOutcomes ==
    {[kind |-> "ok", hasMsg |-> TRUE, data |-> d, tag |-> "", ticker |-> ""] :
        d \in {"1500000000000", "0", "00", "0.0", "0.000", " 0", "abc"}}
    \cup {[kind |-> "ok", hasMsg |-> TRUE, data |-> "", tag |-> "7", ticker |-> "TKN"],
          [kind |-> "ok", hasMsg |-> TRUE, data |-> "", tag |-> "0", ticker |-> "TKN"],
          [kind |-> "ok", hasMsg |-> FALSE, data |-> "", tag |-> "", ticker |-> ""],
          [kind |-> "throws", hasMsg |-> FALSE, data |-> "", tag |-> "", ticker |-> ""]}

\* pidShort(pid)
pidShort(pid) == SubSeq(pid, 1, 6) \o "..." \o SubSeq(pid, Len(pid) - 3, Len(pid))

RECURSIVE JoinLines(_)
JoinLines(lines) ==
    IF lines = <<>> THEN ""
    ELSE IF Len(lines) = 1 THEN lines[1]
    ELSE lines[1] \o " / " \o JoinLines(Tail(lines))

\* the entry pushed to balances for a dryrun that returned
BalanceEntry(pid, out) == [ticker |-> out.ticker, processId |-> pid, amount |-> getRawBalance(out)]

\* the predicate of balances.filter: n.gt(0), or amount !== "0" when new Big throws
IsNonZeroBalance(b) ==
    LET n == Big(IF b.amount = "" THEN "0" ELSE b.amount)
    IN  IF n # NaB THEN BigGt0(n) ELSE b.amount # "0"

\* one line of the summary
BalanceLine(cfg, b) ==
    LET sym == IF b.processId = NativeTokenProcessId THEN "AO"
               ELSE IF b.ticker # "" THEN b.ticker
               ELSE pidShort(b.processId)
    IN  sym \o ": " \o formatAmountWithDecimals(b.amount, getDecimalsByAliasOrId(cfg, b.processId))

\* if (asksForMyBalance): getUserByTelegramId of summarizeUserBalances returns
AggregateLookup ==
    /\ pc = "aggregate"
    /\ \E o \in UserStoreOutcomes :
         IF o = "throws"
         THEN Return("aggregate", OuterCatchText("Failed to get user"))
         ELSE IF UserOf(o) = NullRec \/ UserOf(o).walletAddress = ""
         THEN Return("aggregate", WalletNotFoundText)
         ELSE Goto("agg_balances", "aggregate", "none", [loc EXCEPT !.user = UserOf(o)], Null)
    /\ UNCHANGED <<convVars, fnVars, walletVars, config, msg, tool, calls, iter, toolReply>>

\* balances.filter(...) of summarizeUserBalances
NonZeroBalances(balances) == SelectSeq(balances, IsNonZeroBalance)

\* the text summarizeUserBalances returns for the filtered entries
BalancesText(cfg, nonZero) ==
    IF nonZero = <<>> THEN "No balances found."
    ELSE "Your balances / " \o JoinLines([i \in 1..Len(nonZero) |-> BalanceLine(cfg, nonZero[i])])

\* for (const pid of tracked): the loop body is entered for the next tracked token
\* and its dryrun is issued; the loop is suspended at the await until it settles
AggregateIssue ==
    /\ pc = "agg_balances"
    /\ Len(calls) < Len(TrackedTokens)
    /\ Goto("agg_await", "aggregate", "none", loc, Null)
    /\ UNCHANGED <<convVars, fnVars, walletVars, config, msg, tool, calls, iter, toolReply>>

\* the awaited dryrun settles: its entry is pushed to balances, or the catch logs the failure
AggregateRead ==
    /\ pc = "agg_await"
    /\ \E out \in AggDryrunOutcomes :
         /\ calls' = Append(calls, Call("dryrun", [process |-> TrackedTokens[Len(calls) + 1], target |-> loc.user.walletAddress], out))
         /\ Goto("agg_balances", "aggregate", "none",
                 [loc EXCEPT !.balances = IF out.kind = "ok"
                                          THEN Append(@, BalanceEntry(TrackedTokens[Len(calls) + 1], out))
                                          ELSE @],
                 Null)
    /\ UNCHANGED <<convVars, fnVars, walletVars, config, msg, tool, iter, toolReply>>

\* after the loop: the filter and the text
AggregateReturn ==
    /\ pc = "agg_balances"
    /\ Len(calls) = Len(TrackedTokens)
    /\ Goto("done", "aggregate", "none",
            [loc EXCEPT !.listed = NonZeroBalances(loc.balances)],
            BalancesText(config, NonZeroBalances(loc.balances)))
    /\ UNCHANGED <<convVars, fnVars, walletVars, config, msg, tool, calls, iter, toolReply>>

(***************************************************************************)
(* listBalancesForProcess: the per-token holder listing                    *)
(***************************************************************************)
\* the number of holders listed: entries.slice(0, 10)
TopHolders == 10

HolderAddress(i) == "holder" \o NatToDigits(i) \o "_0123456789abcdefghijklmnopqrstuvwxyz"

\* 2^53: from here on a JavaScript number holds only every second integer
TwoPow53 == "9007199254740992"

\* holder maps the Balances dryrun returns, in the key order of the parsed object
HolderMaps ==
    {<<>>,
     <<[addr |-> HolderAddress(1), bal |-> "300"], [addr |-> OwnerAddress, bal |-> "200"],
       [addr |-> HolderAddress(2), bal |-> "1000"]>>,
     [i \in 1..12 |-> [addr |-> HolderAddress(i), bal |-> NatToDigits(10 * i)]],
     [i \in 1..12 |-> IF i = 4 THEN [addr |-> OwnerAddress, bal |-> "1"]
                      ELSE [addr |-> HolderAddress(i), bal |-> NatToDigits(1000 - i)]],
     <<[addr |-> HolderAddress(1), bal |-> TwoPow53], [addr |-> HolderAddress(2), bal |-> IncDigits(TwoPow53)]>>}

\* results of the Balances dryrun: a holder map, no usable Data, or a failure
BalancesOutcomes ==
    {[kind |-> "ok", hasData |-> TRUE, data |-> m] : m \in HolderMaps}
    \cup {[kind |-> "ok", hasData |-> FALSE, data |-> <<>>],
          [kind |-> "throws", hasData |-> FALSE, data |-> <<>>]}

\* a < b for strings of digits without leading zeros
DigitsLess(a, b) ==
    \/ Len(a) < Len(b)
    \/ /\ Len(a) = Len(b)
       /\ \E i \in 1..Len(a) :
            /\ SubSeq(a, 1, i - 1) = SubSeq(b, 1, i - 1)
            /\ IndexIn(Char(a, i), DigitChars) < IndexIn(Char(b, i), DigitChars)

\* the number a string of digits converts to, for values below 2^54: exact up to 2^53,
\* above it the nearest even integer, a tie going to the multiple of four
ToNumber(digits) ==
    IF ~DigitsLess(TwoPow53, digits) THEN digits
    ELSE LET r == DigitsToNat(SubSeq(digits, Len(digits) - 1, Len(digits))) % 4
         IN  IF r = 1
             THEN SubSeq(digits, 1, Len(digits) - 1)
                  \o Char(DigitChars, IndexIn(Char(digits, Len(digits)), DigitChars) - 1)
             ELSE IF r = 3 THEN IncDigits(digits)
             ELSE digits

\* the comparator (a, b) => b[1] - a[1] is negative or zero: a stays before b
StaysBefore(a, b) == ~DigitsLess(ToNumber(a.bal), ToNumber(b.bal))

\* entries.sort(comparator): a stable sort
RECURSIVE SortEntries(_)
SortEntries(entries) ==
    IF entries = <<>> THEN <<>>
    ELSE LET n == Len(entries)
             x == entries[n]
             sorted == SortEntries(SubSeq(entries, 1, n - 1))
             k == Cardinality({i \in 1..(n - 1) : StaysBefore(sorted[i], x)})
         IN  SubSeq(sorted, 1, k) \o <<x>> \o SubSeq(sorted, k + 1, n - 1)

\* data[user.walletAddress] ?? 0
BalanceIn(entries, address) ==
    IF \E i \in DOMAIN entries : entries[i].addr = address
    THEN entries[CHOOSE i \in DOMAIN entries : entries[i].addr = address].bal
    ELSE "0"

HolderLine(e, wallet) ==
    (IF wallet # "" /\ e.addr = wallet THEN "* " ELSE "") \o SubSeq(e.addr, 1, 10) \o "...: " \o e.bal

\* if (listBalancesForTokenMatch): getUserByTelegramId of listBalancesForProcess returns
ListLookup ==
    /\ pc = "list"
    /\ \E o \in UserStoreOutcomes :
         IF o = "throws"
         THEN Return("list", "Error fetching balances for token.")
         ELSE Goto("list_balances", "list", "none", [loc EXCEPT !.user = UserOf(o)], Null)
    /\ UNCHANGED <<convVars, fnVars, walletVars, config, msg, tool, calls, iter, toolReply>>

\* the Balances dryrun returns: parse, sort, top 10, own balance
ListBalances ==
    /\ pc = "list_balances"
    /\ \E out \in BalancesOutcomes :
         LET wallet == IF loc.user = NullRec THEN "" ELSE loc.user.walletAddress
             sorted == SortEntries(out.data)
             top == SubSeq(sorted, 1, IF Len(sorted) < TopHolders THEN Len(sorted) ELSE TopHolders)
             lines == [i \in 1..Len(top) |-> HolderLine(top[i], wallet)]
             mine == IF wallet = "" THEN ""
                     ELSE " /  / You (" \o SubSeq(wallet, 1, 10) \o "...): " \o BalanceIn(out.data, wallet)
         IN  /\ calls' = Append(calls, Call("dryrun", [process |-> loc.processId, action |-> "Balances"], out))
             /\ IF out.kind = "throws"
                THEN Return("list", "Error fetching balances for token.")
                ELSE IF ~out.hasData
                THEN Return("list", "No balances found.")
                ELSE Goto("done", "list", "none",
                          [loc EXCEPT !.holders = out.data, !.listed = top],
                          "Balances (top 10) / " \o JoinLines(lines) \o mine)
    /\ UNCHANGED <<convVars, fnVars, walletVars, config, msg, tool, iter, toolReply>>

\* the caller has taken the reply; the service awaits the next message
Finish ==
    /\ pc = "done"
    /\ pc' = "idle"
    /\ msg' = ""
    /\ exec' = "none"
    /\ tool' = NullRec
    /\ loc' = LocInit
    /\ calls' = <<>>
    /\ reply' = Null
    /\ handler' = "none"
    /\ iter' = 0
    /\ toolReply' = Null
    /\ UNCHANGED <<convVars, fnVars, walletVars, config>>

(***************************************************************************)
(* Fast-path transfer (processMessage, if (asksForTransfer))               *)
(***************************************************************************)
HasWallet(user) == user # NullRec /\ user.walletAddress # "" /\ user.encryptedPrivateKey # ""

\* the quantity of a numeric amount on the fast path
FastQuantity(cfg, processId, amountRaw) ==
    LET decimals == getDecimalsByAliasOrId(cfg, processId)
    IN  IF decimals > 0 /\ includes(amountRaw, ".")
        THEN toBaseUnits(amountRaw, decimals)
        ELSE amountRaw

\* getUserByTelegramId returns; then decrypt, token resolution and the quantity
FastTransferLookup ==
    /\ pc = "ft_lookup"
    /\ \E o \in UserStoreOutcomes, d \in DecryptOutcomes :
         IF o = "throws" THEN Return("transfer", "[x] Transfer error: Failed to get user")
         ELSE IF ~HasWallet(UserOf(o)) THEN Return("transfer", WalletNotFoundText)
         ELSE IF d = "throws" THEN Return("transfer", "[x] Transfer error: Decryption failed")
         ELSE LET processId == IF loc.tokenSymbol # "" THEN TokenId(toUpperCase(loc.tokenSymbol))
                               ELSE NativeTokenProcessId
                  quantity == FastQuantity(config, processId, loc.amountRaw)
              IN  IF processId = Undefined THEN Return("transfer", "[x] Token not supported.")
                  ELSE IF loc.isAll
                  THEN Goto("balance", "transfer", exec,
                            [loc EXCEPT !.user = UserOf(o), !.processId = processId,
                                        !.quantity = loc.amountRaw], Null)
                  ELSE IF quantity = Invalid
                  THEN Return("transfer", "[x] Transfer error: " \o BigInvalidNumber)
                  ELSE Goto("ft_submit", "transfer", exec,
                            [loc EXCEPT !.user = UserOf(o), !.processId = processId,
                                        !.quantity = quantity], Null)
    /\ UNCHANGED <<convVars, fnVars, walletVars, config, msg, tool, calls, iter, toolReply>>

\* the transfer-asset tool returns text to the agent loop
ToolReturn(text) ==
    /\ pc' = "agent"
    /\ toolReply' = text
    /\ iter' = iter + 1
    /\ UNCHANGED <<handler, reply, exec, loc>>

\* the all/max branch of the fast path submitting whatever balance was read
TransferBalance_NoZeroCheck ==
    /\ pc = "balance"
    /\ \E res \in DryrunOutcomes :
         LET bal == getRawBalance(res)
         IN  /\ calls' = Append(calls, Call("dryrun", [process |-> loc.processId,
                                                        target |-> loc.user.walletAddress], res))
             /\ IF exec = "fastTransfer"
                THEN /\ IF res.kind = "throws"
                        THEN Return("transfer", "[x] Transfer error: dryrun failed")
                        ELSE Goto("ft_submit", "transfer", exec, [loc EXCEPT !.quantity = bal], Null)
                     /\ UNCHANGED <<iter, toolReply>>
                ELSE IF res.kind = "throws"
                     THEN ToolReturn("Error processing transfer: dryrun failed")
                     ELSE IF bal = "0" THEN ToolReturn("Insufficient balance to transfer.")
                     ELSE /\ Goto("tt_submit", handler, exec, [loc EXCEPT !.quantity = bal], reply)
                          /\ UNCHANGED <<iter, toolReply>>
    /\ UNCHANGED <<convVars, fnVars, walletVars, config, msg, tool>>

\* getRawBalance returns on the all/max branch of either transfer path
TransferBalance ==
    /\ pc = "balance"
    /\ \E res \in DryrunOutcomes :
         LET bal == getRawBalance(res)
         IN  /\ calls' = Append(calls, Call("dryrun", [process |-> loc.processId,
                                                        target |-> loc.user.walletAddress], res))
             /\ IF exec = "fastTransfer"
                THEN /\ IF res.kind = "throws"
                        THEN Return("transfer", "[x] Transfer error: dryrun failed")
                        ELSE IF bal = "0" THEN Return("transfer", "[x] Insufficient balance.")
                        ELSE Goto("ft_submit", "transfer", exec, [loc EXCEPT !.quantity = bal], Null)
                     /\ UNCHANGED <<iter, toolReply>>
                ELSE IF res.kind = "throws"
                     THEN ToolReturn("Error processing transfer: dryrun failed")
                     ELSE IF bal = "0" THEN ToolReturn("Insufficient balance to transfer.")
                     ELSE /\ Goto("tt_submit", handler, exec, [loc EXCEPT !.quantity = bal], reply)
                          /\ UNCHANGED <<iter, toolReply>>
    /\ UNCHANGED <<convVars, fnVars, walletVars, config, msg, tool>>

\* FastTransferSubmit submitting a second time after a first failure
FastTransferSubmit_RetryOnce ==
    /\ pc = "ft_submit"
    /\ \E o \in SubmitOutcomes :
         /\ calls' = Append(calls, Call("message", [process |-> loc.processId,
                                                    recipient |-> loc.recipient,
                                                    quantity |-> loc.quantity], o))
         /\ IF o = "throws" /\ CallsOfLog(calls, "message") = {}
            THEN Goto("ft_submit", "transfer", exec, loc, Null)
            ELSE IF o = "throws" THEN Return("transfer", "[x] Transfer error: message failed")
            ELSE Goto("ft_delay", "transfer", exec, [loc EXCEPT !.messageId = MessageId], Null)
    /\ UNCHANGED <<convVars, fnVars, walletVars, config, msg, tool, iter, toolReply>>

\* aoConnect.message returns
FastTransferSubmit ==
    /\ pc = "ft_submit"
    /\ \E o \in SubmitOutcomes :
         /\ calls' = Append(calls, Call("message", [process |-> loc.processId,
                                                    recipient |-> loc.recipient,
                                                    quantity |-> loc.quantity], o))
         /\ IF o = "throws" THEN Return("transfer", "[x] Transfer error: message failed")
            ELSE Goto("ft_delay", "transfer", exec, [loc EXCEPT !.messageId = MessageId], Null)
    /\ UNCHANGED <<convVars, fnVars, walletVars, config, msg, tool, iter, toolReply>>

\* setTimeout(r, 1500) fires
FastTransferDelay ==
    /\ pc = "ft_delay"
    /\ calls' = Append(calls, Call("delay", 1500, "elapsed"))
    /\ pc' = "ft_result"
    /\ UNCHANGED <<convVars, fnVars, walletVars, config, msg, exec, tool, loc, reply, handler, iter, toolReply>>

\* FastTransferResult reporting a confirmation read that did not succeed
FastTransferResult_ReportsFailure ==
    /\ pc = "ft_result"
    /\ \E o \in ResultOutcomes :
         /\ calls' = Append(calls, Call("result", [message |-> loc.messageId,
                                                    process |-> loc.processId], o))
         /\ IF o = "ok"
            THEN Return("transfer",
                        "[ok] Transfer initiated! / - Amount: "
                           \o (IF loc.isAll THEN "ALL" ELSE loc.amountRaw) \o " "
                           \o SymOf(loc.tokenSymbol, loc.processId)
                           \o " / - Recipient: '" \o loc.recipient
                           \o "' / - TxID: '" \o loc.messageId \o "'")
            ELSE Return("transfer", "[x] Transfer error: result failed")
    /\ UNCHANGED <<convVars, fnVars, walletVars, config, msg, tool, iter, toolReply>>

\* aoConnect.result returns; its outcome is only logged
FastTransferResult ==
    /\ pc = "ft_result"
    /\ \E o \in ResultOutcomes :
         calls' = Append(calls, Call("result", [message |-> loc.messageId,
                                                process |-> loc.processId], o))
    /\ Return("transfer",
              "[ok] Transfer initiated! / - Amount: "
                 \o (IF loc.isAll THEN "ALL" ELSE loc.amountRaw) \o " "
                 \o SymOf(loc.tokenSymbol, loc.processId)
                 \o " / - Recipient: '" \o loc.recipient
                 \o "' / - TxID: '" \o loc.messageId \o "'")
    /\ UNCHANGED <<convVars, fnVars, walletVars, config, msg, tool, iter, toolReply>>

(***************************************************************************)
(* Agent path: the tool-calling loop and the transfer-asset tool           *)
(***************************************************************************)
\* maxIterations of the AgentExecutor
MaxIterations == 3

\* the agent calls transfer-asset with JSON that does not parse
AgentCallsTransferToolMalformed ==
    /\ pc = "agent"
    /\ iter < MaxIterations
    /\ exec' = "toolTransfer"
    /\ tool' = NullRec
    /\ loc' = LocInit
    /\ calls' = <<>>
    /\ pc' = "agent"
    /\ toolReply' = "Error processing transfer: Unexpected token in JSON"
    /\ iter' = iter + 1
    /\ UNCHANGED <<convVars, fnVars, walletVars, config, msg, reply, handler>>

\* the agent calls transfer-asset: JSON.parse and the validation before the first await
AgentCallsTransferTool(params) ==
    /\ pc = "agent"
    /\ iter < MaxIterations
    /\ exec' = "toolTransfer"
    /\ tool' = params
    /\ calls' = <<>>
    /\ IF params.recipientAddress = "" \/ params.amount = ""
       THEN /\ pc' = "agent"
            /\ toolReply' = "Error: Both recipientAddress and amount are required"
            /\ iter' = iter + 1
            /\ loc' = LocInit
       ELSE IF parseFloat(params.amount) # "positive"
       THEN /\ pc' = "agent"
            /\ toolReply' = "Error: Amount must be a positive number"
            /\ iter' = iter + 1
            /\ loc' = LocInit
       ELSE /\ pc' = "tt_lookup"
            /\ loc' = [LocInit EXCEPT !.amountRaw = params.amount,
                                      !.recipient = params.recipientAddress,
                                      !.tokenSymbol = params.tokenSymbol]
            /\ UNCHANGED <<iter, toolReply>>
    /\ UNCHANGED <<convVars, fnVars, walletVars, config, msg, reply, handler>>

\* the quantity of a numeric amount in the tool: decimals are always applied
ToolQuantity(cfg, processId, amtRaw) ==
    toBaseUnits(amtRaw, getDecimalsByAliasOrId(cfg, processId))

\* getUserByTelegramId returns; then decrypt, token resolution and the quantity
ToolTransferLookup ==
    /\ pc = "tt_lookup"
    /\ \E o \in UserStoreOutcomes, d \in DecryptOutcomes :
         IF o = "throws" THEN ToolReturn("Error processing transfer: Failed to get user")
         ELSE IF ~HasWallet(UserOf(o))
         THEN ToolReturn("Error: User wallet not found. Please create a wallet first using /start")
         ELSE IF d = "throws" THEN ToolReturn("Error processing transfer: Decryption failed")
         ELSE LET processId == IF tool.tokenSymbol # "" THEN TokenId(toUpperCase(tool.tokenSymbol))
                               ELSE IF tool.tokenProcessId # "" THEN tool.tokenProcessId
                               ELSE NativeTokenProcessId
                  amtRaw == trim(tool.amount)
                  isAll == toLowerCase(amtRaw) \in {"all", "max"}
                  quantity == ToolQuantity(config, processId, amtRaw)
              IN  IF processId = Undefined THEN ToolReturn("Token not supported.")
                  ELSE IF isAll
                  THEN /\ Goto("balance", handler, exec,
                               [loc EXCEPT !.user = UserOf(o), !.processId = processId,
                                           !.isAll = TRUE, !.quantity = amtRaw], reply)
                       /\ UNCHANGED <<iter, toolReply>>
                  ELSE IF quantity = Invalid
                  THEN ToolReturn("Error processing transfer: " \o BigInvalidNumber)
                  ELSE /\ Goto("tt_submit", handler, exec,
                               [loc EXCEPT !.user = UserOf(o), !.processId = processId,
                                           !.quantity = quantity], reply)
                       /\ UNCHANGED <<iter, toolReply>>
    /\ UNCHANGED <<convVars, fnVars, walletVars, config, msg, tool, calls>>

\* aoConnect.message returns
ToolTransferSubmit ==
    /\ pc = "tt_submit"
    /\ \E o \in SubmitOutcomes :
         /\ calls' = Append(calls, Call("message", [process |-> loc.processId,
                                                    recipient |-> tool.recipientAddress,
                                                    quantity |-> loc.quantity], o))
         /\ IF o = "throws" THEN ToolReturn("Error processing transfer: message failed")
            ELSE /\ Goto("tt_delay", handler, exec, [loc EXCEPT !.messageId = MessageId], reply)
                 /\ UNCHANGED <<iter, toolReply>>
    /\ UNCHANGED <<convVars, fnVars, walletVars, config, msg, tool>>

\* setTimeout(resolve, 2000) fires
ToolTransferDelay ==
    /\ pc = "tt_delay"
    /\ calls' = Append(calls, Call("delay", 2000, "elapsed"))
    /\ pc' = "tt_result"
    /\ UNCHANGED <<convVars, fnVars, walletVars, config, msg, exec, tool, loc, reply, handler, iter, toolReply>>

\* ToolTransferResult without the inner try/catch around aoConnect.result
ToolTransferResult_NoInnerCatch ==
    /\ pc = "tt_result"
    /\ \E o \in ResultOutcomes :
         LET sym == SymOf(tool.tokenSymbol, loc.processId)
             summary == "- Amount: " \o tool.amount \o " " \o sym
                        \o " / - Recipient: '" \o tool.recipientAddress
                        \o "' / - TxID: '" \o loc.messageId \o "'"
         IN  /\ calls' = Append(calls, Call("result", [message |-> loc.messageId,
                                                       process |-> loc.processId], o))
             /\ CASE o = "error" -> ToolReturn("Transfer failed: insufficient funds")
                  [] o = "ok" -> ToolReturn("Transfer initiated! / " \o summary
                                            \o " / - Status: Submitted")
                  [] o = "throws" -> ToolReturn("Error processing transfer: result failed")
    /\ UNCHANGED <<convVars, fnVars, walletVars, config, msg, tool>>

\* aoConnect.result returns
ToolTransferResult ==
    /\ pc = "tt_result"
    /\ \E o \in ResultOutcomes :
         LET sym == SymOf(tool.tokenSymbol, loc.processId)
             summary == "- Amount: " \o tool.amount \o " " \o sym
                        \o " / - Recipient: '" \o tool.recipientAddress
                        \o "' / - TxID: '" \o loc.messageId \o "'"
         IN  /\ calls' = Append(calls, Call("result", [message |-> loc.messageId,
                                                       process |-> loc.processId], o))
             /\ CASE o = "error" -> ToolReturn("Transfer failed: insufficient funds")
                  [] o = "ok" -> ToolReturn("Transfer initiated! / " \o summary
                                            \o " / - Status: Submitted")
                  [] o = "throws" -> ToolReturn("Transfer initiated successfully! / " \o summary
                                                \o " / - Status: Processing")
    /\ UNCHANGED <<convVars, fnVars, walletVars, config, msg, tool>>

(***************************************************************************)
(* Swap: fast path (if (asksForSwap)) and the swap-tokens tool             *)
(***************************************************************************)
\* a swap executor ends with text: the fast path returns it, the tool hands it to the agent
SwapEnds(fastText, toolText) ==
    IF exec = "fastSwap"
    THEN /\ Return("swap", fastText)
         /\ UNCHANGED <<iter, toolReply>>
    ELSE ToolReturn(toolText)

\* the agent calls swap-tokens: the defaults of its arguments, up to the first await
AgentCallsSwapTool(args) ==
    /\ pc = "agent"
    /\ iter < MaxIterations
    /\ exec' = "toolSwap"
    /\ tool' = args
    /\ calls' = <<>>
    /\ pc' = "fs_lookup"
    /\ loc' = [LocInit EXCEPT !.amountRaw = args.amount,
                              !.fromSymbol = IF args.from # "" THEN args.from ELSE "AO",
                              !.toSymbol = IF args.to # "" THEN args.to ELSE "ARIO"]
    /\ UNCHANGED <<convVars, fnVars, walletVars, config, msg, reply, handler, iter, toolReply>>

\* the swap going on to the quote with an amount the conversion rejected
SwapLookup_AnyAmount ==
    /\ pc = "fs_lookup"
    /\ \E o \in UserStoreOutcomes, d \in DecryptOutcomes :
         IF o = "throws"
         THEN SwapEnds("[x] Swap error: Failed to get user", "[x] Swap tool error: Failed to get user")
         ELSE IF ~HasWallet(UserOf(o))
         THEN SwapEnds("[x] " \o WalletNotFoundText, "[x] " \o WalletNotFoundText)
         ELSE IF d = "throws"
         THEN SwapEnds("[x] Swap error: Decryption failed", "[x] Swap tool error: Decryption failed")
         ELSE LET fromTokenId == TokenId(toUpperCase(loc.fromSymbol))
                  toTokenId == TokenId(toUpperCase(loc.toSymbol))
                  amountBase == toBaseUnits(loc.amountRaw, getDecimalsByAliasOrId(config, fromTokenId))
              IN  IF fromTokenId = Undefined \/ toTokenId = Undefined
                  THEN SwapEnds(SwapUnsupportedText, SwapUnsupportedText)
                  ELSE /\ Goto("fs_quote", handler, exec,
                               [loc EXCEPT !.user = UserOf(o), !.processId = fromTokenId,
                                           !.quantity = amountBase], reply)
                       /\ UNCHANGED <<iter, toolReply>>
    /\ UNCHANGED <<convVars, fnVars, walletVars, config, msg, tool, calls>>

\* getUserByTelegramId returns; then decrypt, token resolution and amountBase
SwapLookup ==
    /\ pc = "fs_lookup"
    /\ \E o \in UserStoreOutcomes, d \in DecryptOutcomes :
         IF o = "throws"
         THEN SwapEnds("[x] Swap error: Failed to get user", "[x] Swap tool error: Failed to get user")
         ELSE IF ~HasWallet(UserOf(o))
         THEN SwapEnds("[x] " \o WalletNotFoundText, "[x] " \o WalletNotFoundText)
         ELSE IF d = "throws"
         THEN SwapEnds("[x] Swap error: Decryption failed", "[x] Swap tool error: Decryption failed")
         ELSE LET fromTokenId == TokenId(toUpperCase(loc.fromSymbol))
                  toTokenId == TokenId(toUpperCase(loc.toSymbol))
                  amountBase == toBaseUnits(loc.amountRaw, getDecimalsByAliasOrId(config, fromTokenId))
              IN  IF fromTokenId = Undefined \/ toTokenId = Undefined
                  THEN SwapEnds(SwapUnsupportedText, SwapUnsupportedText)
                  ELSE IF amountBase = Invalid
                  THEN SwapEnds("[x] Swap error: " \o BigInvalidNumber,
                                "[x] Swap tool error: " \o BigInvalidNumber)
                  ELSE /\ Goto("fs_quote", handler, exec,
                               [loc EXCEPT !.user = UserOf(o), !.processId = fromTokenId,
                                           !.quantity = amountBase], reply)
                       /\ UNCHANGED <<iter, toolReply>>
    /\ UNCHANGED <<convVars, fnVars, walletVars, config, msg, tool, calls>>

\* SwapQuote without the check of quote.bestRoute
SwapQuote_IgnoresMissingRoute ==
    /\ pc = "fs_quote"
    /\ \E o \in QuoteOutcomes :
         /\ calls' = Append(calls, Call("quote", [fromTokenId |-> loc.processId,
                                                  toTokenId |-> TokenId(toUpperCase(loc.toSymbol)),
                                                  amount |-> loc.quantity,
                                                  userAddress |-> loc.user.walletAddress], o))
         /\ CASE o = "throws" -> SwapEnds("[x] Swap error: quote failed", "[x] Swap tool error: quote failed")
              [] OTHER -> /\ Goto("fs_execute", handler, exec, [loc EXCEPT !.quote = "bestRoute"], reply)
                          /\ UNCHANGED <<iter, toolReply>>
    /\ UNCHANGED <<convVars, fnVars, walletVars, config, msg, tool>>

\* client.getSwapQuote returns
SwapQuote ==
    /\ pc = "fs_quote"
    /\ \E o \in QuoteOutcomes :
         /\ calls' = Append(calls, Call("quote", [fromTokenId |-> loc.processId,
                                                  toTokenId |-> TokenId(toUpperCase(loc.toSymbol)),
                                                  amount |-> loc.quantity,
                                                  userAddress |-> loc.user.walletAddress], o))
         /\ CASE o = "throws" -> SwapEnds("[x] Swap error: quote failed", "[x] Swap tool error: quote failed")
              [] o = "noroute" -> SwapEnds(NoRouteText, NoRouteText)
              [] o = "route" -> /\ Goto("fs_execute", handler, exec, [loc EXCEPT !.quote = "bestRoute"], reply)
                                /\ UNCHANGED <<iter, toolReply>>
    /\ UNCHANGED <<convVars, fnVars, walletVars, config, msg, tool>>

\* client.executeSwap returns
SwapExecute ==
    /\ pc = "fs_execute"
    /\ \E o \in ExecuteOutcomes :
         LET summary == "- From: " \o loc.amountRaw \o " " \o toUpperCase(loc.fromSymbol)
                        \o " / - To: " \o toUpperCase(loc.toSymbol)
                        \o " / - Message: " \o SwapMessageId
         IN  /\ calls' = Append(calls, Call("execute", [route |-> loc.quote, minAmount |-> 1], o))
             /\ IF o = "throws"
                THEN SwapEnds("[x] Swap error: execute failed", "[x] Swap tool error: execute failed")
                ELSE SwapEnds("[swap] Swap submitted! / " \o summary, "[ok] Swap initiated! / " \o summary)
    /\ UNCHANGED <<convVars, fnVars, walletVars, config, msg, tool>>

(***************************************************************************)
(* The agent loop                                                          *)
(***************************************************************************)
\* AgentCallsOtherTool with a loop that stops one iteration later
AgentCallsOtherTool_OneMore ==
    /\ pc = "agent"
    /\ iter <= MaxIterations
    /\ exec' = "otherTool"
    /\ tool' = NullRec
    /\ loc' = LocInit
    /\ calls' = <<>>
    /\ toolReply' = "tool output"
    /\ iter' = iter + 1
    /\ UNCHANGED <<convVars, fnVars, walletVars, config, pc, msg, reply, handler>>

\* the agent calls one of the read-only tools (balances, wallet info)
AgentCallsOtherTool ==
    /\ pc = "agent"
    /\ iter < MaxIterations
    /\ exec' = "otherTool"
    /\ tool' = NullRec
    /\ loc' = LocInit
    /\ calls' = <<>>
    /\ toolReply' = "tool output"
    /\ iter' = iter + 1
    /\ UNCHANGED <<convVars, fnVars, walletVars, config, pc, msg, reply, handler>>

\* agent.invoke returns its output, at the latest when the iteration cap is reached
AgentFinishes ==
    /\ pc = "agent"
    /\ IF iter >= MaxIterations
       THEN Return("agent", MaxIterationsText)
       ELSE \E out \in LlmOutputs : Return("agent", IF out # "" THEN out ELSE ApologyText)
    /\ UNCHANGED <<convVars, fnVars, walletVars, config, msg, tool, calls, iter, toolReply>>

\* agent.invoke throws and no catch block converts the error
AgentThrows_NoCatch ==
    /\ pc = "agent"
    /\ iter < MaxIterations
    /\ pc' = "thrown"
    /\ handler' = "agent"
    /\ reply' = Null
    /\ UNCHANGED <<convVars, fnVars, walletVars, config, msg, exec, loc, tool, calls, iter, toolReply>>

\* createAgent or agent.invoke throws: the catch block of processMessage
AgentThrows ==
    /\ pc = "agent"
    /\ iter < MaxIterations
    /\ \E e \in LlmErrors : Return("agent", OuterCatchText(e))
    /\ UNCHANGED <<convVars, fnVars, walletVars, config, msg, tool, calls, iter, toolReply>>

Next ==
    \/ \E m \in Messages : Receive(m)
    \/ AddressLookup
    \/ SpecificBalance
    \/ AggregateLookup
    \/ AggregateIssue
    \/ AggregateRead
    \/ AggregateReturn
    \/ ListLookup
    \/ ListBalances
    \/ FastTransferLookup
    \/ TransferBalance
    \/ FastTransferSubmit
    \/ FastTransferDelay
    \/ FastTransferResult
    \/ AgentCallsTransferToolMalformed
    \/ \E p \in TransferToolInputs : AgentCallsTransferTool(p)
    \/ ToolTransferLookup
    \/ ToolTransferSubmit
    \/ ToolTransferDelay
    \/ ToolTransferResult
    \/ \E a \in SwapToolInputs : AgentCallsSwapTool(a)
    \/ SwapLookup
    \/ SwapQuote
    \/ SwapExecute
    \/ AgentCallsOtherTool
    \/ AgentFinishes
    \/ AgentThrows
    \/ Finish

Spec == Init /\ [][Next]_vars

\* the messages and tool inputs of the invocations whose termination is followed:
\* one message for each branch of processMessage, and tool inputs of each kind
LiveMessages ==
    {"what is my wallet address",
     "what's my ARIO balance",
     "what is my balance",
     "list balances for " \o ArioTokenProcessId,
     "send 0.1 AO to " \o Recipient,
     "send ALL my usda to " \o Recipient,
     "swap 0.1 ao to ario",
     "hello there"}

LiveTransferInputs ==
    {p \in TransferToolInputs :
        /\ p.amount \in {"5", "all", ""}
        /\ p.tokenSymbol \in {"AO", "FOO"}}

LiveSwapInputs == {a \in SwapToolInputs : a.amount \in {"0.1", "all"} /\ a.from = "ao"}

\* the steps at which a user lookup or the summary's filter returns
Lookups ==
    \/ AggregateReturn
    \/ FastTransferLookup
    \/ ToolTransferLookup
    \/ SwapLookup

\* the other steps of an invocation that has been received and has not returned:
\* every one is the return or the failure of an external call
Returns ==
    \/ AddressLookup
    \/ SpecificBalance
    \/ AggregateLookup
    \/ AggregateIssue
    \/ AggregateRead
    \/ ListLookup
    \/ ListBalances
    \/ TransferBalance
    \/ FastTransferSubmit
    \/ FastTransferDelay
    \/ FastTransferResult
    \/ AgentCallsTransferToolMalformed
    \/ \E p \in LiveTransferInputs : AgentCallsTransferTool(p)
    \/ ToolTransferSubmit
    \/ ToolTransferDelay
    \/ ToolTransferResult
    \/ \E a \in LiveSwapInputs : AgentCallsSwapTool(a)
    \/ SwapQuote
    \/ SwapExecute
    \/ AgentCallsOtherTool
    \/ AgentFinishes
    \/ AgentThrows

NextLive ==
    \/ \E m \in LiveMessages : Receive(m)
    \/ Lookups
    \/ Returns
    \/ Finish

\* the states in which a step of Lookups can be taken
AtLookup ==
    \/ pc \in {"ft_lookup", "tt_lookup", "fs_lookup"}
    \/ pc = "agg_balances" /\ Len(calls) = Len(TrackedTokens)

\* weak fairness of Lookups, with its enabling condition written out
LookupsReturn == []<>(~AtLookup) \/ []<><<Lookups>>_vars

\* every external call eventually returns or fails
SpecLive == Init /\ [][NextLive]_vars /\ WF_vars(Returns) /\ LookupsReturn

(***************************************************************************)
(* Observations shared by the properties                                   *)
(***************************************************************************)
TransferRuns == exec \in {"fastTransfer", "toolTransfer"}

SwapRuns == exec \in {"fastSwap", "toolSwap"}

\* the running executor has returned its text
TransferFinished ==
    \/ exec = "fastTransfer" /\ pc = "done"
    \/ exec = "toolTransfer" /\ pc \in {"agent", "done"}

SwapFinished ==
    \/ exec = "fastSwap" /\ pc = "done"
    \/ exec = "toolSwap" /\ pc \in {"agent", "done"}

\* the text the executor returned
ExecutorText == IF exec \in {"fastTransfer", "fastSwap"} THEN reply ELSE toolReply

CallsOf(op) == CallsOfLog(calls, op)

\* the amount text of the running transfer request, as the user or the agent gave it
RequestAmount == IF exec = "toolTransfer" THEN trim(tool.amount) ELSE loc.amountRaw

RequestIsAll ==
    \/ exec = "fastTransfer" /\ loc.isAll
    \/ exec = "toolTransfer" /\ tool # NullRec /\ toLowerCase(trim(tool.amount)) \in {"all", "max"}

\* the configured decimals of the token of process id p (0 when p is not registered)
RegistryDecimals(p) ==
    IF AliasOfId(p) = Undefined THEN 0 ELSE aliasToDecimals(config)[AliasOfId(p)]

\* x * 10^d for a decimal text x = int[.frac], in plain positional notation
ExactProduct(x, d) ==
    LET dot == IF includes(x, ".") THEN CHOOSE i \in 1..Len(x) : Char(x, i) = "." ELSE Len(x) + 1
        int == SubSeq(x, 1, dot - 1)
        frac == SubSeq(x, dot + 1, Len(x))
        padded == frac \o Zeros(d - Len(frac))
        whole == StripLeadingZeros(int \o SubSeq(padded, 1, d))
        rest == StripTrailingZeros(SubSeq(padded, d + 1, Len(padded)))
    IN  (IF whole = "" THEN "0" ELSE whole) \o (IF rest = "" THEN "" ELSE "." \o rest)

IsPlainDecimal(x) ==
    /\ x # ""
    /\ \A i \in 1..Len(x) : IsDigit(Char(x, i)) \/ Char(x, i) = "."
    /\ Cardinality({i \in 1..Len(x) : Char(x, i) = "."}) <= 1
    /\ IsDigit(Char(x, 1)) /\ IsDigit(Char(x, Len(x)))

(***************************************************************************)
(* C1: for every transfer of a numeric display amount, on the fast path    *)
(* and on the tool path, the Quantity of the submitted Transfer message is *)
(* amountDisplay * 10^decimals of the resolved token, for whole-number     *)
(* amounts as for amounts with a fractional part.                          *)
(***************************************************************************)
C1_QuantityIsAmountTimesDecimals ==
    \A i \in CallsOf("message") :
        (TransferRuns /\ ~RequestIsAll /\ IsPlainDecimal(RequestAmount))
            => calls[i].arg.quantity = ExactProduct(RequestAmount, RegistryDecimals(calls[i].arg.process))

(***************************************************************************)
(* C2: every Quantity of a submitted Transfer message and every amount     *)
(* passed to the swap quote is a non-empty string of decimal digits only.  *)
(***************************************************************************)
C2_WireAmountsAreDigitStrings ==
    /\ \A i \in CallsOf("message") : calls[i].arg.quantity # "" /\ AllDigits(calls[i].arg.quantity)
    /\ \A i \in CallsOf("quote") : calls[i].arg.amount # "" /\ AllDigits(calls[i].arg.amount)

(***************************************************************************)
(* C3: whenever a Transfer message is submitted for a request whose amount *)
(* is "all" or "max" in any letter case, its Quantity is the raw balance   *)
(* string that the Balance dryrun issued just before, for the same token   *)
(* process and the owner's address, returned; never the literal word.      *)
(***************************************************************************)
C3_AllSubmitsRawBalance ==
    \A i \in CallsOf("message") :
        RequestIsAll =>
            /\ i > 1
            /\ calls[i - 1].op = "dryrun"
            /\ calls[i - 1].arg = [process |-> calls[i].arg.process, target |-> OwnerAddress]
            /\ calls[i - 1].out.kind = "ok" /\ calls[i - 1].out.hasMsg
            /\ calls[i].arg.quantity =
                  (IF calls[i - 1].out.data # "" THEN calls[i - 1].out.data ELSE calls[i - 1].out.tag)
            /\ toLowerCase(calls[i].arg.quantity) \notin {"all", "max"}

\* an upper-case ALL request has submitted the balance that came in the Balance tag
C3_Witness ==
    /\ exec = "fastTransfer"
    /\ includes(msg, "ALL")
    /\ \E i \in CallsOf("message") : calls[i].arg.quantity = "42" /\ calls[i - 1].out.tag = "42"

(***************************************************************************)
(* C4: a transfer request naming a token that is not in the registry ends  *)
(* with the unsupported-token text and issues no network call, on the fast *)
(* path and on the tool path (symbol or process id), with or without a     *)
(* stored wallet.                                                          *)
(***************************************************************************)
RequestTokenUnregistered ==
    \/ exec = "fastTransfer" /\ TokenId(toUpperCase(loc.tokenSymbol)) = Undefined
    \/ /\ exec = "toolTransfer" /\ tool # NullRec
       /\ tool.recipientAddress # "" /\ parseFloat(tool.amount) = "positive"
       /\ \/ tool.tokenSymbol # "" /\ TokenId(toUpperCase(tool.tokenSymbol)) = Undefined
          \/ tool.tokenSymbol = "" /\ tool.tokenProcessId # ""
               /\ AliasOfId(tool.tokenProcessId) = Undefined

C4_UnregisteredTokenNoNetworkCall ==
    RequestTokenUnregistered =>
        /\ calls = <<>>
        /\ TransferFinished => ExecutorText \in {"Token not supported.", "[x] Token not supported."}

(***************************************************************************)
(* C5: a transfer whose amount is non-positive (zero, or converting to     *)
(* zero base units) or unparsable is rejected and submits no message; no   *)
(* Transfer message with Quantity "0" is ever submitted.                   *)
(***************************************************************************)
C5_NoZeroQuantitySubmitted ==
    \A i \in CallsOf("message") :
        /\ ~(calls[i].arg.quantity # "" /\ AllZeros(calls[i].arg.quantity))
        /\ ~RequestIsAll => parseFloat(RequestAmount) = "positive" /\ Big(RequestAmount) # NaB

(***************************************************************************)
(* C6: one transfer invocation issues at most one network write and at     *)
(* most two network reads (one balance read, one confirmation read); a     *)
(* failed submission is the last call of the invocation, which then has    *)
(* returned an error text.                                                 *)
(***************************************************************************)
C6_OneWriteTwoReadsNoRetry ==
    TransferRuns =>
        /\ Cardinality(CallsOf("message")) <= 1
        /\ Cardinality(CallsOf("dryrun")) <= 1
        /\ Cardinality(CallsOf("result")) <= 1
        /\ \A i \in CallsOf("message") :
              calls[i].out = "throws" =>
                  /\ i = Len(calls)
                  /\ TransferFinished
                  /\ ExecutorText \in {"[x] Transfer error: message failed",
                                       "Error processing transfer: message failed"}

\* an all/max transfer has read the balance and its submission has failed
C6_Witness ==
    /\ TransferFinished
    /\ Len(calls) = 2
    /\ calls[1].op = "dryrun"
    /\ calls[2].op = "message" /\ calls[2].out = "throws"

(***************************************************************************)
(* C7: a confirmation read is issued only after the submission returned a  *)
(* message id and the delay elapsed; a transfer whose submission succeeded *)
(* has issued exactly one when it returns; and if that read threw, the     *)
(* text returned is a success/processing text containing the message id.   *)
(***************************************************************************)
C7_OneConfirmationReadAfterDelay ==
    TransferRuns =>
        /\ \A i \in CallsOf("result") :
              /\ i > 2
              /\ calls[i - 1].op = "delay"
              /\ calls[i - 2].op = "message" /\ calls[i - 2].out = "ok"
              /\ calls[i].arg.message = MessageId
        /\ (TransferFinished /\ \E i \in CallsOf("message") : calls[i].out = "ok")
              => Cardinality(CallsOf("result")) = 1
        /\ \A i \in CallsOf("result") :
              (TransferFinished /\ calls[i].out = "throws") =>
                  /\ includes(ExecutorText, MessageId)
                  /\ \/ startsWith(ExecutorText, "[ok] Transfer initiated!")
                     \/ startsWith(ExecutorText, "Transfer initiated successfully!")
                          /\ includes(ExecutorText, "Status: Processing")

\* the tool's confirmation read has thrown and the tool has returned
C7_Witness ==
    /\ exec = "toolTransfer"
    /\ TransferFinished
    /\ \E i \in CallsOf("result") : calls[i].out = "throws"

(***************************************************************************)
(* C8: the external calls of a swap invocation are one quote request and   *)
(* then one execute call exactly when the quote returned a best route;     *)
(* without a best route the no-route text is returned and execute is not   *)
(* called; a swap never waits and never issues a confirmation read.        *)
(***************************************************************************)
C8_SwapQuoteThenExecute ==
    SwapRuns =>
        /\ Len(calls) <= 2
        /\ \A i \in DOMAIN calls :
              /\ i = 1 => calls[i].op = "quote"
              /\ i = 2 => calls[i].op = "execute" /\ calls[1].out = "route"
        /\ (SwapFinished /\ calls # <<>>) =>
              /\ calls[1].out = "route" <=> Len(calls) = 2
              /\ calls[1].out = "noroute" => ExecutorText = NoRouteText

\* a swap has returned after a quote without a best route
C8_Witness ==
    /\ SwapFinished
    /\ Len(calls) = 1
    /\ calls[1].op = "quote" /\ calls[1].out = "noroute"

(***************************************************************************)
(* C9: the reply to a message is produced by the first matcher, in the     *)
(* order address, specific-token balance, aggregate balance, list          *)
(* balances, transfer, swap, that matches it, and by the agent exactly     *)
(* when none of the six matches.                                           *)
(***************************************************************************)
FirstMatcher(userMessage) ==
    LET normLower == normLowerOf(userMessage)
        normQuotes == normQuotesOf(userMessage)
    IN  IF asksForAddress(normLower) THEN "address"
        ELSE IF specificTokenBalanceAlias(normQuotes) # Null THEN "specific"
        ELSE IF asksForMyBalance(normLower) THEN "aggregate"
        ELSE IF listBalancesForTokenMatch(normQuotes).ok THEN "list"
        ELSE IF asksForTransfer(normLower) THEN "transfer"
        ELSE IF asksForSwap(normLower) THEN "swap"
        ELSE "agent"

C9_FirstMatcherAnswers == pc = "done" => handler = FirstMatcher(msg)

(***************************************************************************)
(* TelegramBotService: handleConversationMessage and handleStopConversation*)
(***************************************************************************)
\* history.slice(-n) keeping one element more
SliceLast_OneMore(arr, n) ==
    IF Len(arr) <= n + 1 THEN arr ELSE SubSeq(arr, Len(arr) - n, Len(arr))

\* history.slice(-n)
SliceLast(arr, n) == IF Len(arr) <= n THEN arr ELSE SubSeq(arr, Len(arr) - n + 1, Len(arr))

\* the context size of history.slice(-10) and the cap of history.slice(-20)
ContextSize == 10

WindowCap == 20

\* a turn of the window: its role, and as content the n-th message of user u (or the reply to it)
Turn(u, role, n) == [role |-> role, content |-> <<u, n>>]

\* arrays that the map or a running handler still refers to
Referenced(map, handlers) ==
    {map[u] : u \in Users} \cup {handlers[h].history : h \in Handlers}

\* a fresh array: the lowest reference nothing refers to
NewRef(map, handlers) == CHOOSE r \in Refs : r \notin Referenced(map, handlers) /\
                             \A q \in Refs : q \notin Referenced(map, handlers) => r <= q

\* arrays nothing refers to are collected
Collect(map, handlers, h2) == [r \in Refs |-> IF r \in Referenced(map, handlers) THEN h2[r] ELSE <<>>]

\* the window the map holds for user u
Window(u) == IF conversationHistory[u] = 0 THEN <<>> ELSE heap[conversationHistory[u]]

\* the messages received so far: those that appended a turn and those still typing
RECURSIVE Received(_)
Received(u) ==
    IF u = 0 THEN Cardinality({h \in Handlers : hs[h].pc = "typing"})
    ELSE nmsg[u] + Received(u - 1)

\* bot.on("text") calls handleConversationMessage, which awaits sendChatAction("typing")
MessageArrives(h, u) ==
    /\ hs[h].pc = "idle"
    /\ \A g \in Handlers : g < h => hs[g].pc # "idle"
    /\ Received(NumUsers) < MaxMessages
    /\ hs' = [hs EXCEPT ![h] = [HandlerIdle EXCEPT !.pc = "typing", !.user = u]]
    /\ UNCHANGED <<conversationHistory, heap, nmsg, cleared, resetAt, pmVars, fnVars, walletVars>>

\* a message arrives while no other message is being handled
SequentialArrival(u) ==
    /\ \A h \in Handlers : hs[h].pc = "idle"
    /\ MessageArrives(1, u)

\* sendChatAction throws: the catch block sends the error text, the window is not touched
TypingFails(h) ==
    /\ hs[h].pc = "typing"
    /\ hs' = [hs EXCEPT ![h] = HandlerIdle]
    /\ UNCHANGED <<conversationHistory, heap, nmsg, cleared, resetAt, pmVars, fnVars, walletVars>>

\* TypingDone reading the window under one key for every user
TypingDone_OneKey(h) ==
    /\ hs[h].pc = "typing"
    /\ LET u == hs[h].user
           ref == IF conversationHistory[1] # 0 THEN conversationHistory[1]
                  ELSE NewRef(conversationHistory, hs)
           n == nmsg[u] + 1
           arr == Append(heap[ref], Turn(u, "user", n))
       IN  /\ heap' = [heap EXCEPT ![ref] = arr]
           /\ hs' = [hs EXCEPT ![h].pc = "processing", ![h].history = ref, ![h].n = n,
                               ![h].context = SliceLast(arr, ContextSize)]
           /\ nmsg' = [nmsg EXCEPT ![u] = n]
    /\ UNCHANGED <<conversationHistory, cleared, resetAt, pmVars, fnVars, walletVars>>

\* sendChatAction returns: history = get(id) || [], push the user turn, call processMessage
TypingDone(h) ==
    /\ hs[h].pc = "typing"
    /\ LET u == hs[h].user
           ref == IF conversationHistory[u] # 0 THEN conversationHistory[u]
                  ELSE NewRef(conversationHistory, hs)
           n == nmsg[u] + 1
           arr == Append(heap[ref], Turn(u, "user", n))
       IN  /\ heap' = [heap EXCEPT ![ref] = arr]
           /\ hs' = [hs EXCEPT ![h].pc = "processing", ![h].history = ref, ![h].n = n,
                               ![h].context = SliceLast(arr, ContextSize)]
           /\ nmsg' = [nmsg EXCEPT ![u] = n]
    /\ UNCHANGED <<conversationHistory, cleared, resetAt, pmVars, fnVars, walletVars>>

\* ProcessMessageReturns reading the map again and storing the window it holds then,
\* extended by the two turns of the message
ProcessMessageReturns_Fenced(h) ==
    /\ hs[h].pc = "processing"
    /\ LET u == hs[h].user
           arr == Window(u) \o <<Turn(u, "user", hs[h].n), Turn(u, "assistant", hs[h].n)>>
           new == NewRef(conversationHistory, hs)
           map2 == [conversationHistory EXCEPT ![u] = new]
           hs2 == [hs EXCEPT ![h].pc = "sending", ![h].history = 0, ![h].context = <<>>]
       IN  /\ conversationHistory' = map2
           /\ hs' = hs2
           /\ heap' = Collect(map2, hs2, [heap EXCEPT ![new] = SliceLast(arr, WindowCap)])
    /\ UNCHANGED <<nmsg, cleared, resetAt, pmVars, fnVars, walletVars>>

\* processMessage returns: push the assistant turn, set(id, history.slice(-20)), send the reply
ProcessMessageReturns(h) ==
    /\ hs[h].pc = "processing"
    /\ LET u == hs[h].user
           old == hs[h].history
           arr == Append(heap[old], Turn(u, "assistant", hs[h].n))
           pushed == [heap EXCEPT ![old] = arr]
           new == NewRef(conversationHistory, hs)
           map2 == [conversationHistory EXCEPT ![u] = new]
           hs2 == [hs EXCEPT ![h].pc = "sending", ![h].history = 0, ![h].context = <<>>]
       IN  /\ conversationHistory' = map2
           /\ hs' = hs2
           /\ heap' = Collect(map2, hs2, [pushed EXCEPT ![new] = SliceLast(arr, WindowCap)])
    /\ UNCHANGED <<nmsg, cleared, resetAt, pmVars, fnVars, walletVars>>

\* ReplySent deleting the stored window when the delivery fails
ReplySent_DropsOnFailure(h) ==
    /\ hs[h].pc = "sending"
    /\ \E o \in TransportOutcomes :
         /\ hs' = [hs EXCEPT ![h] = IF safeSendMessage(o).thrown # NullRec
                                    THEN [HandlerIdle EXCEPT !.pc = "failed", !.user = hs[h].user]
                                    ELSE HandlerIdle]
         /\ conversationHistory' = IF o.ok THEN conversationHistory
                                   ELSE [conversationHistory EXCEPT ![hs[h].user] = 0]
    /\ UNCHANGED <<heap, nmsg, cleared, resetAt, pmVars, fnVars, walletVars>>

\* safeSendMessage returns true or false and the handler ends, or it throws and the
\* catch block takes over
ReplySent(h) ==
    /\ hs[h].pc = "sending"
    /\ \E o \in TransportOutcomes :
         hs' = [hs EXCEPT ![h] = IF safeSendMessage(o).thrown # NullRec
                                 THEN [HandlerIdle EXCEPT !.pc = "failed", !.user = hs[h].user]
                                 ELSE HandlerIdle]
    /\ UNCHANGED <<conversationHistory, heap, nmsg, cleared, resetAt, pmVars, fnVars, walletVars>>

\* the catch block has sent its error text, or that send has thrown; the handler ends
ErrorTextSent(h) ==
    /\ hs[h].pc = "failed"
    /\ hs' = [hs EXCEPT ![h] = HandlerIdle]
    /\ UNCHANGED <<conversationHistory, heap, nmsg, cleared, resetAt, pmVars, fnVars, walletVars>>

\* StopConversation leaving the stored window in place
StopConversation_KeepsWindow(u) ==
    /\ conversationHistory[u] # 0
    /\ cleared' = [cleared EXCEPT ![u] = TRUE]
    /\ resetAt' = [resetAt EXCEPT ![u] = nmsg[u]]
    /\ UNCHANGED <<conversationHistory, heap, hs, nmsg, pmVars, fnVars, walletVars>>

\* /stopchat or the stop_chat callback: conversationHistory.delete(telegramId)
StopConversation(u) ==
    /\ conversationHistory[u] # 0
    /\ LET map2 == [conversationHistory EXCEPT ![u] = 0]
       IN  /\ conversationHistory' = map2
           /\ heap' = Collect(map2, hs, heap)
           /\ cleared' = [cleared EXCEPT ![u] = TRUE]
           /\ resetAt' = [resetAt EXCEPT ![u] = nmsg[u]]
    /\ UNCHANGED <<hs, nmsg, pmVars, fnVars, walletVars>>

NextConv ==
    \/ \E u \in Users : SequentialArrival(u)
    \/ \E h \in Handlers : TypingFails(h)
    \/ \E h \in Handlers : TypingDone(h)
    \/ \E h \in Handlers : ProcessMessageReturns(h)
    \/ \E h \in Handlers : ReplySent(h)
    \/ \E h \in Handlers : ErrorTextSent(h)
    \/ \E u \in Users : StopConversation(u)

SpecConv == Init /\ [][NextConv]_vars

\* the bound of the short conversations in which a reset is followed by a message
MaxResetMessages == 3

\* a message arrives while no handler runs, in a conversation of few messages
ShortArrival(u) ==
    /\ Received(NumUsers) < MaxResetMessages
    /\ SequentialArrival(u)

NextReset ==
    \/ \E u \in Users : ShortArrival(u)
    \/ \E h \in Handlers : TypingFails(h)
    \/ \E h \in Handlers : TypingDone(h)
    \/ \E h \in Handlers : ProcessMessageReturns(h)
    \/ \E h \in Handlers : ReplySent(h)
    \/ \E h \in Handlers : ErrorTextSent(h)
    \/ \E u \in Users : StopConversation(u)

SpecReset == Init /\ [][NextReset]_vars

\* the bound of the conversations in which messages arrive while others are being handled
MaxRaceMessages == 2

\* a message arrives, whether or not another message is being handled
ConcurrentArrival(h, u) ==
    /\ Received(NumUsers) < MaxRaceMessages
    /\ MessageArrives(h, u)

NextRace ==
    \/ \E h \in Handlers, u \in Users : ConcurrentArrival(h, u)
    \/ \E h \in Handlers : TypingFails(h)
    \/ \E h \in Handlers : TypingDone(h)
    \/ \E h \in Handlers : ProcessMessageReturns(h)
    \/ \E h \in Handlers : ReplySent(h)
    \/ \E h \in Handlers : ErrorTextSent(h)
    \/ \E u \in Users : StopConversation(u)

SpecRace == Init /\ [][NextRace]_vars

(***************************************************************************)
(* processMessage, fast-path transfer of all: several invocations for one  *)
(* wallet and one token                                                    *)
(***************************************************************************)
\* balances of the wallet in base units when the first invocation starts
OpeningBalances == {0, 1, 5, 1500}

InitSendAll ==
    /\ ProgramInit
    /\ ledger \in {[opening |-> b, now |-> b] : b \in OpeningBalances}
    /\ xfers = [i \in Invocations |-> XferIdle]
    /\ submitted = <<>>
    /\ fnIn = NoInput
    /\ fnOut = <<>>
    /\ fnPc = "off"

\* "send all <token> to <recipient>" is dispatched to the transfer branch, the user
\* and the token are found, and getRawBalance is awaited
SendAllArrives(i) ==
    /\ xfers[i].pc = "idle"
    /\ \A j \in Invocations : j < i => xfers[j].pc # "idle"
    /\ xfers' = [xfers EXCEPT ![i].pc = "balance"]
    /\ UNCHANGED <<ledger, submitted, pmVars, convVars, fnVars>>

\* getRawBalance returns the balance the token process holds now, or the dryrun throws
\* and the catch block answers; bal === "0" answers with the insufficient-balance text
SendAllReadsBalance(i) ==
    /\ xfers[i].pc = "balance"
    /\ \E ok \in BOOLEAN :
         xfers' = [xfers EXCEPT ![i] =
                     IF ~ok THEN [pc |-> "failed", bal |-> "", quantity |-> ""]
                     ELSE IF NatToDigits(ledger.now) = "0"
                     THEN [pc |-> "insufficient", bal |-> "0", quantity |-> ""]
                     ELSE [pc |-> "submit", bal |-> NatToDigits(ledger.now),
                           quantity |-> NatToDigits(ledger.now)]]
    /\ UNCHANGED <<ledger, submitted, pmVars, convVars, fnVars>>

\* SendAllSubmits reading the balance again and submitting what the wallet holds then
SendAllSubmits_ReadsAgain(i) ==
    /\ xfers[i].pc = "submit"
    /\ submitted' = Append(submitted, [inv |-> i, quantity |-> NatToDigits(ledger.now)])
    /\ ledger' = [ledger EXCEPT !.now = 0]
    /\ xfers' = [xfers EXCEPT ![i].pc = "initiated"]
    /\ UNCHANGED <<pmVars, convVars, fnVars>>

\* aoConnect.message submits the Transfer with the Quantity read before, or throws; the
\* token process debits the wallet when it holds the Quantity and rejects the message otherwise
SendAllSubmits(i) ==
    /\ xfers[i].pc = "submit"
    /\ \/ /\ submitted' = Append(submitted, [inv |-> i, quantity |-> xfers[i].quantity])
          /\ ledger' = [ledger EXCEPT !.now = IF DigitsToNat(xfers[i].quantity) <= @
                                               THEN @ - DigitsToNat(xfers[i].quantity) ELSE @]
          /\ xfers' = [xfers EXCEPT ![i].pc = "initiated"]
       \/ /\ xfers' = [xfers EXCEPT ![i].pc = "failed"]
          /\ UNCHANGED <<ledger, submitted>>
    /\ UNCHANGED <<pmVars, convVars, fnVars>>

NextSendAll ==
    \/ \E i \in Invocations : SendAllArrives(i)
    \/ \E i \in Invocations : SendAllReadsBalance(i)
    \/ \E i \in Invocations : SendAllSubmits(i)

SpecSendAll == InitSendAll /\ [][NextSendAll]_vars

(***************************************************************************)
(* C10: in every reachable state, the intermediate states of a handler     *)
(* included and under any interleaving of handlers, the window the         *)
(* conversation map holds for a user has at most 20 turns.                 *)
(***************************************************************************)
C10_WindowAtMostTwenty == \A u \in Users : Len(Window(u)) <= WindowCap

(***************************************************************************)
(* Observations of the conversation window                                 *)
(***************************************************************************)
\* the message of user u that is being handled has appended its user turn only
AwaitingReply(u) == \E h \in Handlers : hs[h].user = u /\ hs[h].pc = "processing"

\* the turns appended for user u so far, in append order, when no window was ever deleted
AppendedTurns(u) ==
    LET n == 2 * nmsg[u] - (IF AwaitingReply(u) THEN 1 ELSE 0)
    IN  [i \in 1..n |-> Turn(u, IF i % 2 = 1 THEN "user" ELSE "assistant", (i + 1) \div 2)]

(***************************************************************************)
(* C11: when the messages of one user are handled one after another and    *)
(* n turns have been appended in total, the stored window is exactly the   *)
(* last min(n, 20) appended turns in their append order.                   *)
(***************************************************************************)
C11_WindowIsLastTwentyAppended ==
    \A u \in Users :
        (~cleared[u] /\ conversationHistory[u] # 0)
            => Window(u) = SliceLast(AppendedTurns(u), WindowCap)

(***************************************************************************)
(* C12: the context handed to processMessage is the 10 most recent turns   *)
(* that were in the user's window before the current message (all of them *)
(* when fewer exist), in order; the current message is not one of them.    *)
(***************************************************************************)
C12_ContextIsTenPriorTurns ==
    \A h \in Handlers :
        hs[h].pc = "processing" =>
            LET arr == heap[hs[h].history]
                prior == SubSeq(arr, 1, Len(arr) - 1)
            IN  /\ hs[h].context = SliceLast(prior, ContextSize)
                /\ \A i \in DOMAIN hs[h].context : hs[h].context[i] # Turn(hs[h].user, "user", hs[h].n)

(***************************************************************************)
(* C13: a reset handled for user U while no message of U is being          *)
(* processed leaves U without a window; the next message of U is processed *)
(* with no turn of an earlier message in its context, and the window then  *)
(* holds only the two turns of that message.                               *)
(***************************************************************************)
C13_ResetClearsWindow ==
    [][\A u \in Users :
          /\ ((\A h \in Handlers : hs[h].user # u) /\ StopConversation(u))
                => conversationHistory'[u] = 0
          /\ \A h \in Handlers :
                (/\ hs[h].user = u /\ conversationHistory[u] = 0
                 /\ hs[h].pc = "typing" /\ hs'[h].pc = "processing")
                    => hs'[h].context = <<Turn(u, "user", hs'[h].n)>>
          /\ \A h \in Handlers :
                (/\ hs[h].user = u /\ hs[h].pc = "processing" /\ hs'[h].pc = "sending"
                 /\ heap[hs[h].history] = <<Turn(u, "user", hs[h].n)>>)
                    => /\ conversationHistory'[u] # 0
                       /\ heap'[conversationHistory'[u]] =
                             <<Turn(u, "user", hs[h].n), Turn(u, "assistant", hs[h].n)>>]_vars

\* after a reset, a later message of user 1 has been handled and the window holds its two turns
C13_Witness ==
    /\ cleared[1]
    /\ \A h \in Handlers : hs[h].pc = "idle"
    /\ Len(Window(1)) = 2
    /\ Window(1)[1].content[2] > 1

(***************************************************************************)
(* Application of one function to one input                                *)
(***************************************************************************)
\* createTransferAssetTool: big.times(denom).round(0, 0).toString()
ToBaseUnits ==
    /\ fnPc = "ready" /\ fnIn.fn = "roundTrip"
    /\ fnOut' = <<toBaseUnits(fnIn.x, fnIn.d)>>
    /\ fnPc' = "converted"
    /\ UNCHANGED <<fnIn, pmVars, convVars, walletVars>>

\* formatAmountWithDecimals applied to the base units
FormatAmount ==
    /\ fnPc = "converted"
    /\ fnOut' = Append(fnOut, formatAmountWithDecimals(fnOut[1], fnIn.d))
    /\ fnPc' = "done"
    /\ UNCHANGED <<fnIn, pmVars, convVars, walletVars>>

SafeSendMessage ==
    /\ fnPc = "ready" /\ fnIn.fn = "safeSendMessage"
    /\ fnOut' = <<safeSendMessage(fnIn.outcome)>>
    /\ fnPc' = "done"
    /\ UNCHANGED <<fnIn, pmVars, convVars, walletVars>>

SafeEditMessage ==
    /\ fnPc = "ready" /\ fnIn.fn = "safeEditMessage"
    /\ fnOut' = <<safeEditMessage(fnIn.outcome)>>
    /\ fnPc' = "done"
    /\ UNCHANGED <<fnIn, pmVars, convVars, walletVars>>

\* getDecimalsByAliasOrId is called, and then called again with the same token
GetDecimals ==
    /\ fnPc \in {"ready", "once"} /\ fnIn.fn = "getDecimalsByAliasOrId"
    /\ fnOut' = Append(fnOut, getDecimalsByAliasOrId(config, fnIn.x))
    /\ fnPc' = IF fnPc = "ready" THEN "once" ELSE "done"
    /\ UNCHANGED <<fnIn, pmVars, convVars, walletVars>>

\* parseTransferRequest(normQuotes) for a message
ParseTransfer ==
    /\ fnPc = "ready" /\ fnIn.fn = "parseTransferRequest"
    /\ fnOut' = <<parseTransferRequest(normQuotesOf(fnIn.x))>>
    /\ fnPc' = "done"
    /\ UNCHANGED <<fnIn, pmVars, convVars, walletVars>>

\* parseSwapRequest(normQuotes) for a message
ParseSwap ==
    /\ fnPc = "ready" /\ fnIn.fn = "parseSwapRequest"
    /\ fnOut' = <<parseSwapRequest(normQuotesOf(fnIn.x))>>
    /\ fnPc' = "done"
    /\ UNCHANGED <<fnIn, pmVars, convVars, walletVars>>

\* the step of the try block the handler is about to await
NextTry == TryBody(fnIn.x)[Len(fnOut) + 1]

\* the catch block the exception has reached
CatchLevel == Cardinality({i \in DOMAIN fnOut : fnOut[i].phase = "catch"}) + 1

NextCatch == CatchBlocks(fnIn.x)[CatchLevel]

\* a handler awaits the next step of its try block
HandlerTries ==
    /\ fnIn.fn = "handler" /\ fnPc \in {"ready", "try"}
    /\ \E o \in StepOutcomes(NextTry) :
         /\ fnOut' = Append(fnOut, [phase |-> "try", step |-> NextTry, outcome |-> o])
         /\ fnPc' = IF Throws(NextTry, o) THEN "catch"
                    ELSE IF StopsHandler(NextTry, o) \/ Len(fnOut) + 1 = Len(TryBody(fnIn.x)) THEN "done"
                    ELSE "try"
    /\ UNCHANGED <<fnIn, pmVars, convVars, walletVars>>

\* a catch block of the handler sends its error text; an exception of that send
\* reaches the next catch block around it, or leaves the handler
HandlerCatches ==
    /\ fnIn.fn = "handler" /\ fnPc = "catch"
    /\ \E o \in TransportOutcomes :
         /\ fnOut' = Append(fnOut, [phase |-> "catch", step |-> NextCatch, outcome |-> o])
         /\ fnPc' = IF ~Throws(NextCatch, o) THEN "done"
                    ELSE IF CatchLevel < Len(CatchBlocks(fnIn.x)) THEN "catch"
                    ELSE "rejected"
    /\ UNCHANGED <<fnIn, pmVars, convVars, walletVars>>

(***************************************************************************)
(* ApiController.sendTokens: POST /users/:telegramId/send                  *)
(***************************************************************************)
\* no response sent yet
NoResponse == [code |-> 0, success |-> FALSE, messageId |-> ""]

\* res.status(code).json({ error })
ErrorResponse(code) == [code |-> code, success |-> FALSE, messageId |-> ""]

\* res.json({ success: true, transactionId, messageId })
SuccessResponse(messageId) == [code |-> 200, success |-> TRUE, messageId |-> messageId]

\* the status of the transaction record: "none" while no record exists
TxStatus == IF fnOut = <<>> THEN "none" ELSE fnOut[Len(fnOut)].status

\* a step of sendTokens: the call awaited, its outcome, the status of the
\* transaction record after it and the response sent by it
SendStep(step, o, status, response) ==
    [step |-> step, outcome |-> o, status |-> status, response |-> response]

\* the body is checked: processId, recipient and quantity must be present
SendTokensValidates ==
    /\ fnIn.fn = "sendTokens" /\ fnPc = "ready"
    /\ IF fnIn.body.processId = "" \/ fnIn.body.recipient = "" \/ fnIn.body.quantity = ""
       THEN /\ fnOut' = Append(fnOut, SendStep("validate", "invalid", TxStatus, ErrorResponse(400)))
            /\ fnPc' = "done"
       ELSE /\ fnOut' = Append(fnOut, SendStep("validate", "ok", TxStatus, NoResponse))
            /\ fnPc' = "st_user"
    /\ UNCHANGED <<fnIn, pmVars, convVars, walletVars>>

\* userService.getUserByTelegramId returns a user, returns null, or throws
SendTokensUserLookup ==
    /\ fnIn.fn = "sendTokens" /\ fnPc = "st_user"
    /\ \E o \in {"found", "null", "throws"} :
         /\ fnOut' = Append(fnOut, SendStep("getUserByTelegramId", o, TxStatus,
                                            IF o = "found" THEN NoResponse
                                            ELSE IF o = "null" THEN ErrorResponse(404)
                                            ELSE ErrorResponse(500)))
         /\ fnPc' = IF o = "found" THEN "st_wallet" ELSE "done"
    /\ UNCHANGED <<fnIn, pmVars, convVars, walletVars>>

\* userService.getUserWallet returns the wallet or throws
SendTokensWalletLoaded ==
    /\ fnIn.fn = "sendTokens" /\ fnPc = "st_wallet"
    /\ \E o \in {"ok", "throws"} :
         /\ fnOut' = Append(fnOut, SendStep("getUserWallet", o, TxStatus,
                                            IF o = "ok" THEN NoResponse ELSE ErrorResponse(500)))
         /\ fnPc' = IF o = "ok" THEN "st_create" ELSE "done"
    /\ UNCHANGED <<fnIn, pmVars, convVars, walletVars>>

\* userService.createTransaction creates the record with status PENDING, or throws
SendTokensRecordCreated ==
    /\ fnIn.fn = "sendTokens" /\ fnPc = "st_create"
    /\ \E o \in {"ok", "throws"} :
         /\ fnOut' = Append(fnOut, IF o = "ok"
                                   THEN SendStep("createTransaction", o, "PENDING", NoResponse)
                                   ELSE SendStep("createTransaction", o, TxStatus, ErrorResponse(500)))
         /\ fnPc' = IF o = "ok" THEN "st_transfer" ELSE "done"
    /\ UNCHANGED <<fnIn, pmVars, convVars, walletVars>>

\* aoWalletService.transferTokens returns the id of the submitted message, or
\* throws because aoConnect.message has failed
SendTokensTransfer ==
    /\ fnIn.fn = "sendTokens" /\ fnPc = "st_transfer"
    /\ \E o \in SubmitOutcomes :
         /\ fnOut' = Append(fnOut, SendStep("transferTokens", o, TxStatus, NoResponse))
         /\ fnPc' = IF o = "ok" THEN "st_update" ELSE "st_failed"
    /\ UNCHANGED <<fnIn, pmVars, convVars, walletVars>>

\* updateTransactionStatus(id, "PENDING", { messageId }) returns and the success
\* response is sent, or it throws into the catch block around the transfer
SendTokensRecordUpdated ==
    /\ fnIn.fn = "sendTokens" /\ fnPc = "st_update"
    /\ \E o \in {"ok", "throws"} :
         /\ fnOut' = Append(fnOut, IF o = "ok"
                                   THEN SendStep("updateTransactionStatus", o, "PENDING",
                                                 SuccessResponse(MessageId))
                                   ELSE SendStep("updateTransactionStatus", o, TxStatus, NoResponse))
         /\ fnPc' = IF o = "ok" THEN "done" ELSE "st_failed"
    /\ UNCHANGED <<fnIn, pmVars, convVars, walletVars>>

\* the catch block around the transfer: updateTransactionStatus(id, "FAILED", ...)
\* returns or throws; the error is rethrown and the outer catch answers 500
SendTokensMarkedFailed ==
    /\ fnIn.fn = "sendTokens" /\ fnPc = "st_failed"
    /\ \E o \in {"ok", "throws"} :
         fnOut' = Append(fnOut, SendStep("markFailed", o,
                                         IF o = "ok" THEN "FAILED" ELSE TxStatus,
                                         ErrorResponse(500)))
    /\ fnPc' = "done"
    /\ UNCHANGED <<fnIn, pmVars, convVars, walletVars>>

NextFn ==
    \/ HandlerTries
    \/ HandlerCatches
    \/ ParseTransfer
    \/ ParseSwap
    \/ GetDecimals
    \/ ToBaseUnits
    \/ FormatAmount
    \/ SafeSendMessage
    \/ SafeEditMessage
    \/ SendTokensValidates
    \/ SendTokensUserLookup
    \/ SendTokensWalletLoaded
    \/ SendTokensRecordCreated
    \/ SendTokensTransfer
    \/ SendTokensRecordUpdated
    \/ SendTokensMarkedFailed

SpecFn == InitFn /\ [][NextFn]_vars

(***************************************************************************)
(* C14: processMessage always returns text                                 *)
(***************************************************************************)
\* the positions of processMessage: waiting for a message, inside a branch, returned
Positions ==
    {"idle", "done", "address", "specific", "aggregate", "agg_balances", "agg_await", "list", "list_balances",
     "ft_lookup", "balance", "ft_submit", "ft_delay", "ft_result", "agent",
     "tt_lookup", "tt_submit", "tt_delay", "tt_result", "fs_lookup", "fs_quote", "fs_execute"}

\* a value that is a string of characters, not null or undefined
IsText(r) == r \notin {Null, Undefined}

\* C14: processMessage returns a text reply for every input and for every failure
\* of a collaborator: it is never left by an exception, and what it returns is a text.
C14_AlwaysReturnsText ==
    /\ pc \in Positions
    /\ pc = "done" => IsText(reply)

\* the language model fails with an unclassified error and the catch block answers
C14_Witness ==
    /\ pc = "done"
    /\ handler = "agent"
    /\ reply = OuterCatchText("boom")

(***************************************************************************)
(* C15: the two safe delivery functions                                    *)
(***************************************************************************)
\* a safe delivery function has been applied to its transport outcome
DeliveryDone == fnPc = "done" /\ fnIn.fn \in {"safeSendMessage", "safeEditMessage"}

\* the two error classes the functions treat as non-fatal
BlockedByUser(o) == ~o.ok /\ o.code = 403

ChatNotFound(o) == ~o.ok /\ o.code = 400 /\ includes(o.description, "chat not found")

\* C15: safeSendMessage and safeEditMessage return true exactly when the transport
\* call succeeded, return false without raising exactly when the error is of the
\* blocked-by-user class (403) or the chat-not-found class (400 with a
\* 'chat not found' description), and re-raise every other error unchanged.
C15_SafeDeliveryClasses ==
    DeliveryDone =>
        LET o == fnIn.outcome
            r == fnOut[1]
        IN  /\ (r.returns = "true") <=> o.ok
            /\ (r.returns = "false") <=> (BlockedByUser(o) \/ ChatNotFound(o))
            /\ r.returns \in {"true", "false"} => r.thrown = NullRec
            /\ r.returns \notin {"true", "false"} => r.thrown = o

\* a send fails with a rate-limit error, which is raised to the caller
C15_Witness ==
    /\ DeliveryDone
    /\ fnIn.fn = "safeSendMessage"
    /\ fnIn.outcome.code = 429
    /\ fnOut[1].thrown = fnIn.outcome

(***************************************************************************)
(* C16, C17: the balance summary of a user                                 *)
(***************************************************************************)
\* summarizeUserBalances has returned for a user who has a wallet
SummaryReturned ==
    /\ pc = "done"
    /\ handler = "aggregate"
    /\ CallsOfLog(calls, "dryrun") # {}

\* the raw balance text denotes a number strictly greater than zero
StrictlyPositive(amount) == parseFloat(amount) = "positive"

\* C16: the balance summary never lists a token whose raw balance is numerically
\* zero, whatever text the network returned for it: every listed token has a raw
\* balance strictly greater than zero.
C16_ListedBalancesPositive ==
    SummaryReturned =>
        \A i \in DOMAIN loc.listed : StrictlyPositive(loc.listed[i].amount)

\* C17: for a user who has a wallet, the aggregate-balance path returns exactly
\* "No balances found." whenever no tracked token yields a positive balance.
C17_NoBalancesText ==
    (SummaryReturned /\ \A i \in DOMAIN loc.balances : ~StrictlyPositive(loc.balances[i].amount))
        => reply = "No balances found."

(***************************************************************************)
(* C18: the holder listing of one token                                    *)
(***************************************************************************)
\* listBalancesForProcess has returned a listing
ListingReturned ==
    /\ pc = "done"
    /\ handler = "list"
    /\ startsWith(reply, "Balances (top 10)")

\* the wallet of the requesting user, "" when there is none
RequesterWallet == IF loc.user = NullRec THEN "" ELSE loc.user.walletAddress

\* C18: the holder listing issues exactly one read-only Balances query, lists at
\* most 10 holders, these are the holders with the 10 largest balances in
\* non-increasing order of balance, the requesting user's entry is marked when it
\* is among them, and a final line with the requesting user's own balance (0 when
\* absent from the map) is appended whenever the user has a wallet.
C18_TopTenHolders ==
    ListingReturned =>
        LET listed == loc.listed
            holders == loc.holders
            own == RequesterWallet
        IN  /\ Cardinality(CallsOfLog(calls, "dryrun")) = 1
            /\ \A i \in CallsOfLog(calls, "dryrun") : calls[i].arg.action = "Balances"
            /\ Len(listed) = (IF Len(holders) < 10 THEN Len(holders) ELSE 10)
            /\ \A i \in DOMAIN listed : \E j \in DOMAIN holders : holders[j] = listed[i]
            /\ \A j \in DOMAIN holders :
                 (\A i \in DOMAIN listed : listed[i] # holders[j]) =>
                     \A i \in DOMAIN listed : ~DigitsLess(listed[i].bal, holders[j].bal)
            /\ \A i, j \in DOMAIN listed : i < j => ~DigitsLess(listed[i].bal, listed[j].bal)
            /\ \A i \in DOMAIN listed :
                 listed[i].addr = own => includes(reply, "* " \o SubSeq(own, 1, 10) \o "...: ")
            /\ own # "" =>
                 includes(reply, "You (" \o SubSeq(own, 1, 10) \o "...): " \o BalanceIn(holders, own))

(***************************************************************************)
(* C19: the transfer-asset tool and the amounts 'all' and 'max'            *)
(***************************************************************************)
\* the transfer-asset tool runs or has run with a recipient and the amount all or max
ToolAskedForAll ==
    /\ exec = "toolTransfer"
    /\ tool # NullRec
    /\ tool.recipientAddress # ""
    /\ toLowerCase(trim(tool.amount)) \in {"all", "max"}

\* C19: the transfer-asset tool supports the amounts 'all' and 'max' (any case):
\* invoked with such an amount it does not answer with the validation error for
\* amounts, and when it has finished without a failure of a collaborator it has
\* read the balance and submitted exactly one Transfer message.
C19_ToolSupportsAll ==
    ToolAskedForAll =>
        /\ toolReply # "Error: Amount must be a positive number"
        /\ (pc = "agent" /\ startsWith(toolReply, "Transfer initiated successfully!"))
               => /\ Cardinality(CallsOf("dryrun")) = 1
                  /\ Cardinality(CallsOf("message")) = 1

(***************************************************************************)
(* C20: display units to base units and back                               *)
(***************************************************************************)
\* a display amount has been converted to base units and formatted back
RoundTripDone == fnPc = "done" /\ fnIn.fn = "roundTrip"

\* the number of fractional digits the value b needs
FractionDigits(b) == IF Len(b.c) - 1 - b.e > 0 THEN Len(b.c) - 1 - b.e ELSE 0

\* the value b cut after k fractional digits
CutAt(b, k) ==
    LET sd == k + b.e + 1
    IN  IF sd < 1 THEN [s |-> b.s, c |-> "0", e |-> 0]
        ELSE IF sd < Len(b.c) THEN [b EXCEPT !.c = StripTrailingZeros(SubSeq(b.c, 1, sd))]
        ELSE b

\* the text shown denotes the value of x at the display cap of 6 fractional digits,
\* the digits beyond the cap either rounded or cut
ShownWithinCap(shown, x) ==
    /\ Big(shown) # NaB
    /\ \/ Big(shown) = BigRoundHalfUp(Big(x), DisplayDigits + Big(x).e + 1)
       \/ Big(shown) = CutAt(Big(x), DisplayDigits)

\* C20 as stated: for every positive decimal string x and every decimals d >= 0,
\* converting x to base units with d decimals and formatting the result back with
\* the same d yields x, up to the 6-fractional-digit display cap and trimming of
\* trailing zeros.
C20_RoundTripEveryAmount ==
    RoundTripDone => ShownWithinCap(fnOut[2], fnIn.x)

\* C20, amended: for every positive decimal string x that has at most d fractional
\* digits, converting x to base units with d decimals and formatting the result
\* back with the same d yields the value of x, up to the 6-fractional-digit
\* display cap and trimming of trailing zeros.
C20_RoundTripRepresentable ==
    (RoundTripDone /\ FractionDigits(Big(fnIn.x)) <= fnIn.d)
        => ShownWithinCap(fnOut[2], fnIn.x)

\* an amount with seven fractional digits and twelve decimals comes back at the cap
C20_Witness ==
    /\ RoundTripDone
    /\ fnIn.x = "1.2345678"
    /\ fnIn.d = 12
    /\ fnOut = <<"1234567800000", "1.234568">>

(***************************************************************************)
(* C21: the decimals of a token                                            *)
(***************************************************************************)
\* the registry: the aliases, and the decimals configured for each
RegistryAliases ==
    {"AO", "ARIO", "WAR", "WUSDC", "WUSDT", "WETH", "USDA", "VAR", "VUSDC", "VDAI", "VETH"}

ConfiguredDecimals(alias) ==
    CASE alias = "AO" -> config.nativeTokenDecimals
      [] alias = "ARIO" -> config.arioTokenDecimals
      [] alias \in {"WETH", "VETH"} -> 18
      [] OTHER -> 12

\* the aliases the text names: written in some letter case, or by the process id
NamedAliases(text) ==
    {a \in RegistryAliases : toLowerCase(a) = toLowerCase(text) \/ SUPPORTED_TOKENS[a] = text}

\* getDecimalsByAliasOrId has been called twice with the same token
DecimalsDone == fnPc = "done" /\ fnIn.fn = "getDecimalsByAliasOrId"

\* C21: getDecimalsByAliasOrId returns, for every alias of the registry written in
\* any letter case and for that alias's process id, the decimals configured for
\* that token, with the same result on every call; for every string that is
\* neither a registered alias nor a registered process id it returns 0.
C21_DecimalsOfRegistry ==
    DecimalsDone =>
        /\ fnOut[1] = fnOut[2]
        /\ \A a \in NamedAliases(fnIn.x) : fnOut[1] = ConfiguredDecimals(a)
        /\ NamedAliases(fnIn.x) = {} => fnOut[1] = 0

\* the alias of a token with 18 decimals, written in lower case
C21_Witness ==
    /\ DecimalsDone
    /\ fnIn.x = "veth"
    /\ fnOut = <<18, 18>>

(***************************************************************************)
(* C22: the parameters the fast-path extractors capture                    *)
(***************************************************************************)
\* an extractor has been applied to a well-formed message
TransferParsed == fnPc = "done" /\ fnIn.fn = "parseTransferRequest"

SwapParsed == fnPc = "done" /\ fnIn.fn = "parseSwapRequest"

\* C22: the fast-path extractors capture their parameters as the literal
\* substrings of the original-case message: for a numeric transfer the amount is
\* the number text, the token the alias as written, the recipient the address
\* with its case preserved, and isAll is false; for an all/max transfer isAll is
\* true and the token is the alias; for a swap the amount is the number text and
\* from and to are the two aliases.
C22_ExtractorsCaptureLiterally ==
    /\ TransferParsed =>
         LET parts == fnIn.parts
             r == fnOut[1]
         IN  /\ r # NullRec
             /\ r.tokenSymbol = parts.alias
             /\ r.recipient = parts.recipient
             /\ IF parts.amount \in RequestNumbers
                THEN r.isAll = FALSE /\ r.amountRaw = parts.amount
                ELSE r.isAll = TRUE
    /\ SwapParsed =>
         LET parts == fnIn.parts
             r == fnOut[1]
         IN  /\ r # NullRec
             /\ r.amountRaw = parts.amount
             /\ r.fromSymbol = parts.alias
             /\ r.toSymbol = parts.recipient

\* a transfer of a decimal amount to a mixed-case address, in a sentence
C22_Witness ==
    /\ TransferParsed
    /\ fnIn.x = "please SEND 0.1 wUSDC to OWNERwallet_0123456789abcdefghijklmnopqrstu thanks"
    /\ fnOut[1] = [amountRaw |-> "0.1", isAll |-> FALSE, tokenSymbol |-> "wUSDC",
                   recipient |-> "OWNERwallet_0123456789abcdefghijklmnopqrstu"]

(***************************************************************************)
(* C23: the tool path and the fast path of a transfer                      *)
(***************************************************************************)
\* the confirmation read of the running transfer returned an Error field
ResultHasError == \E i \in CallsOf("result") : calls[i].out = "error"

\* C23: the transfer-asset tool and the fast-path transfer run the same transfer
\* logic: for the same request and the same responses both submit the same
\* Quantity to the same process and both report failure in the same cases.
\* Stated on one run of either path: the Quantity submitted for a numeric amount
\* is the one the tool's conversion gives for that amount and token, and a
\* confirmation read with an Error field is reported as a failure, as the tool
\* reports it.
C23_SameTransferLogic ==
    /\ \A i \in CallsOf("message") :
         (TransferRuns /\ ~RequestIsAll)
            => calls[i].arg.quantity = ToolQuantity(config, calls[i].arg.process, RequestAmount)
    /\ (TransferRuns /\ TransferFinished /\ ResultHasError)
            => ~includes(ExecutorText, "Transfer initiated")

(***************************************************************************)
(* C24, C25: what the Transfer matcher takes                               *)
(***************************************************************************)
\* the message holds send/transfer followed by an amount-or-all clause, a token
\* alias and a recipient of at least 20 characters
HasTransferClause(message) == parseTransferRequest(normQuotesOf(message)) # NullRec

\* C24: the Transfer matcher matches only a message in which send/transfer is
\* followed by an amount-or-all clause, a token alias and a recipient of at least
\* 20 characters; a message that merely contains the word send or transfer is
\* not answered by the transfer branch but falls through to the Swap matcher and
\* then to the agent.
C24_TransferMatcherNeedsClause ==
    (pc # "idle" /\ handler = "transfer") => HasTransferClause(msg)

\* the message contains both "my balance" and a well-formed send/transfer clause
BalanceAndTransfer(message) ==
    includes(normLowerOf(message), "my balance") /\ HasTransferClause(message)

\* the message is taken by one of the two matchers that precede the aggregate balance
TakenEarlier(message) ==
    \/ asksForAddress(normLowerOf(message))
    \/ specificTokenBalanceAlias(normQuotesOf(message)) # Null

ReadBalance(out) ==
    IF out.hasMsg /\ out.data # "" THEN out.data
    ELSE IF out.hasMsg /\ out.tag # "" THEN out.tag
    ELSE "0"

\* C26: on the all/max transfer path, when the balance query returns a balance of
\* zero (literal "0", or no balance message at all), the invocation returns the
\* insufficient-balance text, no Transfer message is submitted and no
\* confirmation read is issued; when it returns any non-zero balance, that full
\* balance is submitted.
C26_ZeroBalanceStopsTransfer ==
    \A i \in CallsOf("dryrun") :
        (exec = "fastTransfer" /\ loc.isAll /\ calls[i].out.kind = "ok") =>
            IF ReadBalance(calls[i].out) = "0"
            THEN /\ pc = "done"
                 /\ reply = "[x] Insufficient balance."
                 /\ CallsOf("message") = {} /\ CallsOf("result") = {}
            ELSE /\ reply # "[x] Insufficient balance."
                 /\ IF Len(calls) = i
                    THEN pc = "ft_submit" /\ loc.quantity = ReadBalance(calls[i].out)
                    ELSE /\ calls[i + 1].op = "message"
                         /\ calls[i + 1].arg.quantity = ReadBalance(calls[i].out)

\* the balance query returned no message and the transfer ended without a submission
C26_Witness ==
    /\ exec = "fastTransfer" /\ loc.isAll
    /\ pc = "done"
    /\ Len(calls) = 1 /\ calls[1].op = "dryrun" /\ ~calls[1].out.hasMsg /\ calls[1].out.kind = "ok"
    /\ reply = "[x] Insufficient balance."

(***************************************************************************)
(* C27: a swap of "all" or "max"                                           *)
(***************************************************************************)
\* the message of the swap branch, or the input of the swap-tokens tool, asks for all or max
SwapAskedForAll ==
    \/ /\ handler = "swap"
       /\ \/ includes(normLowerOf(msg), "swap all ")
          \/ includes(normLowerOf(msg), "swap max ")
    \/ /\ exec = "toolSwap"
       /\ toLowerCase(trim(tool.amount)) \in {"all", "max"}

\* C27: a swap request whose amount is "all" or "max" is never executed: on the
\* fast path and on the swap-tokens tool path it returns a text reply and issues
\* no balance read, no quote request and no execute call.
C27_SwapAllNeverExecuted ==
    SwapAskedForAll =>
        /\ CallsOf("dryrun") = {} /\ CallsOf("quote") = {} /\ CallsOf("execute") = {}
        /\ pc \notin {"fs_quote", "fs_execute"}
        /\ (handler = "swap" /\ pc = "done") => IsText(reply)
        /\ (exec = "toolSwap" /\ pc = "agent") => IsText(toolReply)

\* the swap-tokens tool was given the amount MAX and returned the conversion error
C27_Witness ==
    /\ exec = "toolSwap"
    /\ tool.amount = "MAX"
    /\ pc = "agent"
    /\ toolReply = "[x] Swap tool error: [big.js] Invalid number"

(***************************************************************************)
(* C28: failures of single balance reads in the summary                    *)
(***************************************************************************)
\* the positions of the tracked tokens whose read returned a positive balance
PositiveReads ==
    {i \in DOMAIN calls : calls[i].out.kind = "ok" /\ StrictlyPositive(ReadBalance(calls[i].out))}

\* the k-th smallest element of a set of numbers
KthOf(set, k) == CHOOSE i \in set : Cardinality({j \in set : j < i}) = k - 1

\* C28: in the balance summary the failure of the read of one tracked token never
\* aborts the summary: a read is issued for every tracked token, a token whose
\* read failed is omitted, and the listed entries are exactly the tokens whose
\* read succeeded with a positive balance, in the order of the tracked tokens.
C28_SummaryIsBestEffort ==
    SummaryReturned =>
        /\ Len(calls) = Len(TrackedTokens)
        /\ \A i \in DOMAIN calls :
             calls[i].op = "dryrun" /\ calls[i].arg.process = TrackedTokens[i]
        /\ Len(loc.listed) = Cardinality(PositiveReads)
        /\ \A k \in DOMAIN loc.listed :
             loc.listed[k].processId = TrackedTokens[KthOf(PositiveReads, k)]

(***************************************************************************)
(* C29: the order of the balance reads of the summary                      *)
(***************************************************************************)
\* the summary loop of summarizeUserBalances is running
InSummaryLoop == handler = "aggregate" /\ pc \in {"agg_balances", "agg_await"}

\* the number of tracked tokens whose read has been issued: the settled ones and
\* the one the loop is waiting for
ReadsIssued == Len(calls) + (IF pc = "agg_await" THEN 1 ELSE 0)

\* C29: in the balance summary the reads of the tracked tokens run concurrently:
\* the read of every tracked token is issued without waiting for the read of
\* another token to complete, so once any read has settled the reads of all
\* tracked tokens have been issued.
C29_ReadsIssuedTogether ==
    (InSummaryLoop /\ Len(calls) > 0) => ReadsIssued = Len(TrackedTokens)

(***************************************************************************)
(* C30: every outbound send and edit of a handler is a safe delivery       *)
(***************************************************************************)
\* the transport errors safe delivery answers with false: blocked by the user, chat not found
BlockedOrChatNotFound(o) == ~o.ok /\ SafeDelivery(o).returns = "false"

\* the handler has been left by the exception of its last delivery
HandlerRejected == fnIn.fn = "handler" /\ fnPc = "rejected"

\* C30: every outbound send or edit of a bot handler, in its try block and in its
\* error branches, goes through safe delivery, and a handler is never left by
\* a blocked-by-user or chat-not-found transport error.
C30_HandlersDeliverSafely ==
    fnIn.fn = "handler" =>
        /\ \A i \in DOMAIN fnOut :
             fnOut[i].step.op \in {"send", "edit"} => fnOut[i].step.via = "safe"
        /\ HandlerRejected => ~BlockedOrChatNotFound(fnOut[Len(fnOut)].outcome)

(***************************************************************************)
(* C31: two messages of one user handled at the same time                  *)
(***************************************************************************)
\* the array handler h holds in its local variable history
LocalHistory(h) == heap[hs[h].history]

\* handler h takes the step from the push of the assistant turn to the send
Stores(h) == hs[h].pc = "processing" /\ hs'[h].pc = "sending"

\* C31: messages of one user that are handled at the same time are not fenced: the
\* handler that stores last wins.  Whatever the map holds when a handler stores,
\* the window afterwards is the handler's own array with its assistant turn, cut
\* to the cap; when two handlers of one user both read an absent window, the
\* window the second one stores lacks both turns of the first message.
C31_LastWriterWins ==
    [][\A h \in Handlers :
          Stores(h) =>
              Window(hs[h].user)' =
                  SliceLast(Append(LocalHistory(h), Turn(hs[h].user, "assistant", hs[h].n)), WindowCap)]_vars

\* two messages of user 1 were handled at the same time, no reset took place, and
\* the stored window holds the two turns of the second message only
C31_Witness ==
    /\ \A h \in Handlers : hs[h].pc = "idle"
    /\ nmsg[1] = 2 /\ ~cleared[1]
    /\ Window(1) = <<Turn(1, "user", 2), Turn(1, "assistant", 2)>>

(***************************************************************************)
(* C32: two transfers of all of one wallet                                 *)
(***************************************************************************)
\* the sum of the quantities of the Transfer messages submitted
RECURSIVE TotalSubmitted(_)
TotalSubmitted(log) ==
    IF log = <<>> THEN 0 ELSE DigitsToNat(Head(log).quantity) + TotalSubmitted(Tail(log))

\* C32: the transfer of all has no guard between the balance read and the
\* submission: an invocation submits exactly the balance it read, whatever the
\* wallet holds at the time of the submission, so two invocations that both
\* read the balance B before either submits both submit Quantity B and the
\* total submitted exceeds the balance of the wallet.
C32_SubmitsWhatItRead ==
    [][\A i \in Invocations :
          (xfers[i].pc = "submit" /\ xfers'[i].pc = "initiated") =>
              /\ Len(submitted') = Len(submitted) + 1
              /\ submitted'[Len(submitted')] = [inv |-> i, quantity |-> xfers[i].bal]]_vars

\* two invocations have both read the opening balance and both submitted it
C32_Witness ==
    /\ Len(submitted) = 2
    /\ submitted[1].inv # submitted[2].inv
    /\ \A k \in 1..2 : submitted[k].quantity = NatToDigits(ledger.opening)
    /\ TotalSubmitted(submitted) > ledger.opening

(***************************************************************************)
(* C33: the rounding of the conversion to base units                       *)
(***************************************************************************)
\* the exact product amount x 10^decimals of the conversion being applied
ConvertedProduct == BigTimes(Big(fnIn.x), BigPow10(fnIn.d))

\* the value v lies exactly half way between two integers
HalfWay(v) == v.e >= -1 /\ Len(v.c) = v.e + 2 /\ Char(v.c, Len(v.c)) = "5"

\* the text r denotes an integer nearest to the value v; half way, either neighbour
IsNearestInteger(r, v) ==
    \/ r = BigToString(BigRoundHalfUp(v, v.e + 1))
    \/ HalfWay(v) /\ r = BigToString(CutAt(v, 0))

\* C33: the conversion to base units rounds to the nearest integer: for a display
\* amount with more fractional digits than the token's decimals, the base-unit
\* amount is the integer nearest to amount x 10^decimals, not that value cut
\* towards zero.
C33_RoundsToNearest ==
    (/\ fnIn.fn = "roundTrip" /\ fnPc \in {"converted", "done"}
     /\ FractionDigits(ConvertedProduct) > 0)
        => IsNearestInteger(fnOut[1], ConvertedProduct)

(***************************************************************************)
(* C34: the iteration cap of the agent and termination                     *)
(***************************************************************************)
\* an invocation has been received and has not returned
InProgress == pc \notin {"idle", "done"}

\* C34: the tool-calling loop of the agent runs at most 3 iterations in one
\* invocation, and when every external call eventually returns or fails every
\* invocation of processMessage eventually returns a text reply.
C34_CappedAndTerminates ==
    /\ [](iter <= MaxIterations)
    /\ InProgress ~> (pc = "done" /\ IsText(reply))

\* the agent has used its three iterations and the executor has stopped it
C34_Witness ==
    /\ pc = "done"
    /\ handler = "agent"
    /\ iter = MaxIterations
    /\ reply = MaxIterationsText

(***************************************************************************)
(* C35: conversation state is keyed by user                                *)
(***************************************************************************)
\* the step is taken by a handler of user a, or is the reset command of user a
StepOf(a) ==
    \/ \E h \in Handlers : hs'[h] # hs[h] /\ (hs[h].user = a \/ hs'[h].user = a)
    \/ hs' = hs /\ conversationHistory'[a] # conversationHistory[a]

\* C35: conversation state is keyed by user: under any interleaving, a step of
\* the handling of a message or of a reset of user A leaves the window of every
\* other user B unchanged, and the context handed to processMessage for a
\* message of A holds no turn of another user.
C35_KeyedByUser ==
    /\ [](\A h \in Handlers :
            hs[h].pc = "processing" =>
                \A i \in DOMAIN hs[h].context : hs[h].context[i].content[1] = hs[h].user)
    /\ [][\A a \in Users :
            StepOf(a) => \A b \in Users \ {a} : Window(b)' = Window(b)]_vars

\* a message of user 1 and a message of user 2 were processed at the same time: the
\* one of user 2 has stored its window while the one of user 1 still awaits its reply
C35_Witness ==
    /\ \E g, h \in Handlers :
         /\ hs[g].pc = "processing" /\ hs[g].user = 1
         /\ hs[h].pc = "sending" /\ hs[h].user = 2
    /\ conversationHistory[2] # 0
    /\ Window(2) = <<Turn(2, "user", 1), Turn(2, "assistant", 1)>>

(***************************************************************************)
(* C36: a reset while a message is being processed                         *)
(***************************************************************************)
\* a user turn of the window of user u that was appended before the last reset of u:
\* the turn of message n is appended when n messages have been counted
StaleTurns(u) ==
    {i \in DOMAIN Window(u) : Window(u)[i].role = "user" /\ Window(u)[i].content[2] <= resetAt[u]}

\* C36: once the reset command of user U has completed, the window of U never
\* again contains a turn that was appended before the reset, also when a message
\* of U was being processed at the moment of the reset.
C36_ResetIsFinal == \A u \in Users : cleared[u] => StaleTurns(u) = {}

(***************************************************************************)
(* C37: the window is stored before the reply is delivered                 *)
(***************************************************************************)
\* handler h ends the delivery of its reply, the delivery of its error text, or
\* leaves after the typing indicator failed
DeliveryEnds(h) ==
    \/ hs[h].pc = "sending" /\ hs'[h].pc # "sending"
    \/ hs[h].pc = "failed" /\ hs'[h].pc = "idle"
    \/ hs[h].pc = "typing" /\ hs'[h].pc = "idle"

\* the window of user u ends with the user turn and the assistant turn of message n
EndsWithPair(u, n) ==
    /\ Len(Window(u)) >= 2
    /\ SubSeq(Window(u), Len(Window(u)) - 1, Len(Window(u))) =
           <<Turn(u, "user", n), Turn(u, "assistant", n)>>

\* C37: the user turn and the assistant turn of a message are stored in the
\* user's window before the reply is handed to the transport, so the stored
\* window is the same whether the delivery succeeds, is swallowed or raises
\* another transport error; and when the typing indicator fails the window is
\* left unchanged.
C37_StoredBeforeDelivery ==
    /\ [](\A h \in Handlers :
            (hs[h].pc = "sending" /\ resetAt[hs[h].user] < hs[h].n)
                => EndsWithPair(hs[h].user, hs[h].n))
    /\ [][\A h \in Handlers :
            DeliveryEnds(h) => \A u \in Users : Window(u)' = Window(u)]_vars

\* the delivery of the reply to the first message of user 1 raised an error that is
\* not swallowed; the window holds the two turns of the message
C37_Witness ==
    /\ hs[1].pc = "failed" /\ hs[1].user = 1
    /\ Window(1) = <<Turn(1, "user", 1), Turn(1, "assistant", 1)>>

(***************************************************************************)
(* C38: the stored window is a sequence of user/assistant pairs            *)
(***************************************************************************)
\* the messages of one user, handled one at a time
NextPairs ==
    \/ SequentialArrival(1)
    \/ \E h \in Handlers : TypingFails(h)
    \/ \E h \in Handlers : TypingDone(h)
    \/ \E h \in Handlers : ProcessMessageReturns(h)
    \/ \E h \in Handlers : ReplySent(h)
    \/ \E h \in Handlers : ErrorTextSent(h)
    \/ \E u \in Users : StopConversation(u)

SpecPairs == Init /\ [][NextPairs]_vars

\* no handler of user u is between reading the window and storing it
HandlersCompleted(u) ==
    \A h \in Handlers : hs[h].user = u => hs[h].pc \in {"sending", "failed"}

\* w has even length and every odd position holds a user turn followed by the
\* assistant turn
Alternates(w) ==
    /\ Len(w) % 2 = 0
    /\ \A i \in 1..Len(w) : w[i].role = (IF i % 2 = 1 THEN "user" ELSE "assistant")

\* C38: when the messages of one user are handled one at a time, the stored
\* window after each handler completes has even length and alternates user turn,
\* assistant turn, starting with a user turn and ending with the assistant reply
\* to the latest message; trimming to 20 turns never splits a pair.
C38_WindowIsPairs ==
    \A u \in Users :
        (conversationHistory[u] # 0 /\ HandlersCompleted(u)) =>
            /\ Alternates(Window(u))
            /\ Len(Window(u)) >= 2
            /\ Len(Window(u)) <= WindowCap
            /\ \A i \in 1..(Len(Window(u)) \div 2) :
                   Window(u)[2 * i].content = Window(u)[2 * i - 1].content
            /\ \A h \in Handlers :
                   (hs[h].pc = "sending" /\ hs[h].user = u) =>
                       Window(u)[Len(Window(u))] = Turn(u, "assistant", hs[h].n)

\* the eleventh message of user 1 has been handled: the window was trimmed to 20
\* turns and its oldest pair is the one of the second message
C38_Witness ==
    /\ hs[1].pc = "sending" /\ hs[1].user = 1 /\ hs[1].n = 11
    /\ conversationHistory[1] # 0
    /\ Len(Window(1)) = WindowCap
    /\ Window(1)[1] = Turn(1, "user", 2)

(***************************************************************************)
(* C39: the reply of the fast-path transfer and the confirmation read      *)
(***************************************************************************)
\* the fast-path transfer has returned after its submission returned a message id
FastTransferSubmitted ==
    /\ exec = "fastTransfer"
    /\ pc = "done"
    /\ \E i \in CallsOf("message") : calls[i].out = "ok"

\* the text of the fast path for a submitted transfer, from the request and the
\* message id alone
InitiatedText ==
    "[ok] Transfer initiated! / - Amount: "
       \o (IF loc.isAll THEN "ALL" ELSE loc.amountRaw) \o " "
       \o SymOf(loc.tokenSymbol, loc.processId)
       \o " / - Recipient: '" \o loc.recipient
       \o "' / - TxID: '" \o MessageId \o "'"

\* C39: the reply of the fast-path transfer does not depend on the outcome of
\* the confirmation read: once the submission returned a message id, the reply
\* is the same Transfer initiated text with that id, whether the confirmation
\* read succeeds, returns a result carrying Error, or throws.
C39_ReplyIgnoresConfirmation ==
    FastTransferSubmitted =>
        /\ \E i \in CallsOf("result") : calls[i].out \in ResultOutcomes
        /\ reply = InitiatedText
        /\ includes(reply, MessageId)

\* a fast-path transfer was submitted, its confirmation read has thrown, and it
\* has returned
C39_Witness ==
    /\ FastTransferSubmitted
    /\ \E i \in CallsOf("result") : calls[i].out = "throws"

\* as C39_Witness, for a confirmation read that returned a result carrying Error
C39_WitnessError ==
    /\ FastTransferSubmitted
    /\ \E i \in CallsOf("result") : calls[i].out = "error"

(***************************************************************************)
(* C40: the transaction record of the HTTP send-tokens operation           *)
(***************************************************************************)
\* the steps of sendTokens at which transferTokens returned a message id
SubmittedSteps ==
    {i \in DOMAIN fnOut : fnOut[i].step = "transferTokens" /\ fnOut[i].outcome = "ok"}

\* the response sent by sendTokens
ResponseSent == fnOut[Len(fnOut)].response

\* C40: in the HTTP send-tokens operation the transaction record is created with
\* status PENDING before the transfer is attempted, and it is set to FAILED only
\* if the transfer message was not submitted: a record whose transfer was
\* submitted is never marked FAILED, and the response is a success carrying the
\* message id exactly when the transfer was submitted.
C40_FailedOnlyIfNotSubmitted ==
    fnIn.fn = "sendTokens" =>
        /\ \A i \in DOMAIN fnOut :
              fnOut[i].step = "transferTokens" => (i > 1 /\ fnOut[i - 1].status = "PENDING")
        /\ TxStatus = "FAILED" => SubmittedSteps = {}
        /\ fnPc = "done" =>
              (ResponseSent = SuccessResponse(MessageId) <=> SubmittedSteps # {})

====
